---------------------------- MODULE Spec2Model ----------------------------
(***************************************************************************)
(* A model of the report normalization, track classification, result       *)
(* aggregation and regression detection of the AAS benchmark observatory   *)
(* (scripts/aggregate.py, scripts/validate_report.py and the operation     *)
(* track rule of sdks/basyx-rust/emit_report.py).                          *)
(*                                                                         *)
(* Strings whose characters the code inspects (operation keys, dataset     *)
(* names) are sequences of one-character strings; identifiers the code     *)
(* only compares (sdk ids, file names) are plain strings.  A JSON object   *)
(* is a Python dict in insertion order: a sequence of [k, v] items with    *)
(* distinct keys.                                                          *)
(***************************************************************************)
EXTENDS Integers, Sequences, FiniteSets, TLC

VARIABLES
    pc,             \* position of the run being modelled
    raw_op,         \* canonical_operation_id: the key passed in
    canonical,      \* canonical_operation_id: the results of the calls so far
    ds_name,        \* emit_report: dataset name of the benchmark being emitted
    operation,      \* emit_report: operation (criterion group) being emitted
    stats,          \* emit_report: the measured figures of that benchmark
    datasets,       \* emit_report: the datasets object built so far
    current_sdk,    \* _compute_regressions: the current library entry
    previous_sdks,  \* _compute_regressions: previous entries by sdk id
    regressions,    \* _compute_regressions: the list returned
    results_dir,    \* main: the results root on disk
    known_sdks,     \* main: the known-sdks.json file
    previous_results, \* main: the --previous-results argument and its file
    names,          \* aggregate: the id -> name table loaded
    todo,           \* aggregate: the sorted children still to visit
    sdk_benchmarks, \* aggregate: library entries so far
    server_benchmarks, \* aggregate: server entries so far
    prev_index,     \* main: previous library entries by id
    cursor,         \* main: position of the regression loop in sdk_benchmarks
    regression_count, \* main: records attached so far
    stdout,         \* main: the lines printed
    output,         \* main: the document written to the output path
    report,         \* normalize: the report handed in
    normalized,     \* normalize: the normalized report returned
    op_map,         \* normalize: the key rename map returned
    capabilities,   \* derive_capabilities: the booleans returned
    core_eligible,  \* derive_capabilities: the eligibility returned
    path,           \* validate_report: the file at the path passed in
    errors          \* validate_report: the list returned

canonVars == <<raw_op, canonical>>
trackVars == <<ds_name, operation, stats, datasets>>
regVars == <<current_sdk, previous_sdks, regressions>>
inputVars == <<results_dir, known_sdks, previous_results>>
aggVars == <<names, todo, sdk_benchmarks, server_benchmarks>>
mainVars == <<prev_index, cursor, regression_count, stdout, output>>
normVars == <<report, normalized, op_map>>
capVars == <<capabilities, core_eligible>>
valVars == <<path, errors>>
vars == <<pc, canonVars, trackVars, regVars, inputVars, aggVars, mainVars, normVars,
          capVars, valVars>>

\* the variables of a part of the program that a run does not exercise
IdleCanon == raw_op = <<>> /\ canonical = <<>>
IdleTrack == ds_name = <<>> /\ operation = <<>> /\ stats = <<>> /\ datasets = <<>>
IdleReg == current_sdk = <<>> /\ previous_sdks = <<>> /\ regressions = <<>>
IdleNorm == report = <<>> /\ normalized = <<>> /\ op_map = <<>>
IdleCap == capabilities = <<>> /\ core_eligible = FALSE
IdleVal == path = <<>> /\ errors = <<>>
IdleMain ==
    /\ results_dir = <<>> /\ known_sdks = <<>> /\ previous_results = <<>>
    /\ names = <<>> /\ todo = <<>> /\ sdk_benchmarks = <<>> /\ server_benchmarks = <<>>
    /\ prev_index = <<>> /\ cursor = 0 /\ regression_count = 0
    /\ stdout = <<>> /\ output = <<>>

None == "None"

----------------------------------------------------------------------------
(* Characters and strings                                                  *)

LowerSeq == <<"a","b","c","d","e","f","g","h","i","j","k","l","m",
              "n","o","p","q","r","s","t","u","v","w","x","y","z">>
UpperSeq == <<"A","B","C","D","E","F","G","H","I","J","K","L","M",
              "N","O","P","Q","R","S","T","U","V","W","X","Y","Z">>
DigitSeq == <<"0","1","2","3","4","5","6","7","8","9">>

Range(s) == {s[i] : i \in DOMAIN s}

IsLower(c) == c \in Range(LowerSeq)
IsUpper(c) == c \in Range(UpperSeq)
IsDigit(c) == c \in Range(DigitSeq)

\* str.lower() on one ASCII character
LowerChar(c) ==
    IF IsUpper(c) THEN LowerSeq[CHOOSE i \in DOMAIN UpperSeq : UpperSeq[i] = c]
    ELSE c

\* str.upper() on one ASCII character (used only to build input keys)
UpperChar(c) ==
    IF IsLower(c) THEN UpperSeq[CHOOSE i \in DOMAIN LowerSeq : LowerSeq[i] = c]
    ELSE c

Lower(s) == [i \in DOMAIN s |-> LowerChar(s[i])]
Upper(s) == [i \in DOMAIN s |-> UpperChar(s[i])]
Capitalized(s) == [i \in DOMAIN s |-> IF i = 1 THEN UpperChar(s[i]) ELSE s[i]]

\* a slip that leaves hyphens in place
ReplaceHyphens_kept(s) == s

\* str.replace("-", "_")
ReplaceHyphens(s) == [i \in DOMAIN s |-> IF s[i] = "-" THEN "_" ELSE s[i]]

\* str.startswith(prefix)
StartsWith(s, prefix) ==
    /\ Len(prefix) <= Len(s)
    /\ SubSeq(s, 1, Len(prefix)) = prefix

S_deserialize == <<"d","e","s","e","r","i","a","l","i","z","e">>
S_validate == <<"v","a","l","i","d","a","t","e">>
S_traverse == <<"t","r","a","v","e","r","s","e">>
S_update == <<"u","p","d","a","t","e">>
S_serialize == <<"s","e","r","i","a","l","i","z","e">>
S_deserialize_xml == <<"d","e","s","e","r","i","a","l","i","z","e","_","x","m","l">>
S_serialize_xml == <<"s","e","r","i","a","l","i","z","e","_","x","m","l">>
S_aasx_extract == <<"a","a","s","x","_","e","x","t","r","a","c","t">>
S_aasx_repackage == <<"a","a","s","x","_","r","e","p","a","c","k","a","g","e">>
S_deserializeXml == <<"d","e","s","e","r","i","a","l","i","z","e","X","m","l">>
S_serializeXml == <<"s","e","r","i","a","l","i","z","e","X","m","l">>
S_deserializexml == <<"d","e","s","e","r","i","a","l","i","z","e","x","m","l">>
S_serializexml == <<"s","e","r","i","a","l","i","z","e","x","m","l">>
S_aasxExtract == <<"a","a","s","x","E","x","t","r","a","c","t">>
S_aasxRepackage == <<"a","a","s","x","R","e","p","a","c","k","a","g","e">>
S_aasxextract == <<"a","a","s","x","e","x","t","r","a","c","t">>
S_aasxrepackage == <<"a","a","s","x","r","e","p","a","c","k","a","g","e">>
S_wide == <<"w","i","d","e">>
S_deep == <<"d","e","e","p">>
S_mixed == <<"m","i","x","e","d">>
S_val_ == <<"v","a","l","_">>
S_val_regex == <<"v","a","l","_","r","e","g","e","x">>
S_wide_xml == <<"w","i","d","e","_","x","m","l">>
S_aasx_small == <<"a","a","s","x","_","s","m","a","l","l">>
S_xval_wide == <<"x","v","a","l","_","w","i","d","e">>
S_aasx == <<"a","a","s","x">>
S_xml == <<"x","m","l">>
S_extract == <<"e","x","t","r","a","c","t">>
S_repackage == <<"r","e","p","a","c","k","a","g","e">>

----------------------------------------------------------------------------
(* validate_report.canonical_operation_id                                  *)

\* the `explicit` alias table, as (key, value) pairs
explicit ==
    { <<S_deserializeXml, S_deserialize_xml>>,
      <<S_serializeXml, S_serialize_xml>>,
      <<S_deserializexml, S_deserialize_xml>>,
      <<S_serializexml, S_serialize_xml>>,
      <<S_aasxExtract, S_aasx_extract>>,
      <<S_aasxRepackage, S_aasx_repackage>>,
      <<S_aasxextract, S_aasx_extract>>,
      <<S_aasxrepackage, S_aasx_repackage>> }

\* the `dense_map` alias table
dense_map ==
    { <<S_deserializexml, S_deserialize_xml>>,
      <<S_serializexml, S_serialize_xml>>,
      <<S_aasxextract, S_aasx_extract>>,
      <<S_aasxrepackage, S_aasx_repackage>> }

InTable(table, k) == \E e \in table : e[1] = k
Lookup(table, k) == (CHOOSE e \in table : e[1] = k)[2]

\* re.sub(r"([a-z0-9])([A-Z])", r"\1_\2", s): a left-to-right scan for
\* non-overlapping matches; a match at i consumes s[i], s[i+1].
RECURSIVE CamelScan(_, _)
CamelScan(s, i) ==
    IF i > Len(s) THEN <<>>
    ELSE IF /\ i < Len(s)
            /\ (IsLower(s[i]) \/ IsDigit(s[i]))
            /\ IsUpper(s[i + 1])
         THEN <<s[i], "_", s[i + 1]>> \o CamelScan(s, i + 2)
         ELSE <<s[i]>> \o CamelScan(s, i + 1)

CamelToSnake(s) == CamelScan(s, 1)

\* a slip that consults the dense-form table on the raw key, before the
\* structural transform, and so misses dense spellings that need lowercasing
canonical_operation_id_dense_on_raw(raw_op_) ==
    IF InTable(explicit, raw_op_) THEN Lookup(explicit, raw_op_)
    ELSE IF InTable(dense_map, raw_op_) THEN Lookup(dense_map, raw_op_)
    ELSE Lower(ReplaceHyphens(CamelToSnake(raw_op_)))

canonical_operation_id(raw_op_) ==
    IF InTable(explicit, raw_op_) THEN Lookup(explicit, raw_op_)
    ELSE LET snake == Lower(ReplaceHyphens(CamelToSnake(raw_op_)))
         IN  IF InTable(dense_map, snake) THEN Lookup(dense_map, snake)
             ELSE snake

----------------------------------------------------------------------------
(* emit_report.infer_operation_track                                       *)

CORE_DATASETS == {S_wide, S_deep, S_mixed}
\* a slip that leaves one operation out of the core set
CORE_OPERATIONS_without_update == {S_deserialize, S_validate, S_traverse, S_serialize}

CORE_OPERATIONS == {S_deserialize, S_validate, S_traverse, S_update, S_serialize}

\* a slip that drops the dataset-prefix test of the validation track
infer_operation_track_no_prefix(dataset, operation_id) ==
    IF operation_id \in {S_deserialize_xml, S_serialize_xml} THEN "xml"
    ELSE IF operation_id \in {S_aasx_extract, S_aasx_repackage} THEN "aasx"
    ELSE IF operation_id = S_validate THEN "validation"
    ELSE IF dataset \in CORE_DATASETS /\ operation_id \in CORE_OPERATIONS THEN "core"
    ELSE "capability"

\* a slip that tests the core set before the xml and aasx names
infer_operation_track_xml_last(dataset, operation_id) ==
    IF StartsWith(dataset, S_val_) /\ operation_id = S_validate THEN "validation"
    ELSE IF dataset \in CORE_DATASETS THEN "core"
    ELSE IF operation_id \in {S_deserialize_xml, S_serialize_xml} THEN "xml"
    ELSE IF operation_id \in {S_aasx_extract, S_aasx_repackage} THEN "aasx"
    ELSE "capability"

infer_operation_track(dataset, operation_id) ==
    IF operation_id \in {S_deserialize_xml, S_serialize_xml} THEN "xml"
    ELSE IF operation_id \in {S_aasx_extract, S_aasx_repackage} THEN "aasx"
    ELSE IF StartsWith(dataset, S_val_) /\ operation_id = S_validate THEN "validation"
    ELSE IF dataset \in CORE_DATASETS /\ operation_id \in CORE_OPERATIONS THEN "core"
    ELSE "capability"

----------------------------------------------------------------------------
(* Python dicts in insertion order                                         *)

EmptyDict == <<>>
DictKeys(d) == {d[i].k : i \in DOMAIN d}
Has(d, key) == key \in DictKeys(d)
Get(d, key) == d[CHOOSE i \in DOMAIN d : d[i].k = key].v
\* d[key] = value: an existing key keeps its position
Put(d, key, value) ==
    IF Has(d, key)
    THEN [i \in DOMAIN d |-> IF d[i].k = key THEN [k |-> key, v |-> value] ELSE d[i]]
    ELSE Append(d, [k |-> key, v |-> value])

\* op.get(field): the field's value, or None when the entry has no such field
Field(entry, name) == IF name \in DOMAIN entry THEN entry[name] ELSE None
\* entry with entry[name] = value
WithField(entry, name, value) ==
    [f \in DOMAIN entry \cup {name} |-> IF f = name THEN value ELSE entry[f]]

----------------------------------------------------------------------------
(* Exact arithmetic for aggregate._compute_regressions                     *)
(*                                                                         *)
(* The code computes in floating point; the model decides the same         *)
(* comparisons exactly, on integers.  Percent figures that the code rounds *)
(* to two decimals are integers counting hundredths of a percent.          *)

REGRESSION_THRESHOLD_PCT == 5
\* Z_95 = 1.96, in hundredths
Z_95_HUNDREDTHS == 196

Abs(x) == IF x < 0 THEN -x ELSE x

RECURSIVE GCD(_, _)
GCD(a, b) == IF b = 0 THEN Abs(a) ELSE GCD(b, a % b)

\* a/b > c/d for a, c >= 0 and b, d > 0, by continued fractions, so that no
\* product is formed
RECURSIVE GTFrac(_, _, _, _)
GTFrac(a, b, c, d) ==
    LET qa == a \div b
        qc == c \div d
        ra == a % b
        rc == c % d
    IN  IF qa # qc THEN qa > qc
        ELSE IF ra = 0 THEN FALSE
        ELSE IF rc = 0 THEN TRUE
        ELSE GTFrac(d, rc, b, ra)

\* a*b > c*d for a, b, c, d >= 0
ProdGT(a, b, c, d) ==
    IF a = 0 \/ b = 0 THEN FALSE
    ELSE IF c = 0 \/ d = 0 THEN TRUE
    ELSE GTFrac(a, d, c, b)

\* (stddev or 0) ** 2 / n summed over both sides, as a reduced fraction
\* <<numerator, denominator>>:  curr_var / curr_n + prev_var / prev_n
VarianceOfDiff(curr_stddev, curr_n, prev_stddev, prev_n) ==
    LET num == curr_stddev * curr_stddev * prev_n + prev_stddev * prev_stddev * curr_n
        den == curr_n * prev_n
        g == GCD(num, den)
    IN  <<num \div g, den \div g>>

\* sign of  L - M * sqrt(V)  (lower bound) or  L + M * sqrt(V)  (upper bound)
\* for M > 0 and V = v[1] / v[2] >= 0:
\*   LowerPos:  L - M*sqrt(V) >  0      LowerNonNeg:  L - M*sqrt(V) >= 0
\*   UpperNeg:  L + M*sqrt(V) <  0
SqGT(L, M, v) ==
    LET g == GCD(L, M)
        l == Abs(L) \div g
        m == M \div g
    IN  ProdGT(l, l * v[2], m, m * v[1])

LowerPos(L, M, v) == L > 0 /\ SqGT(L, M, v)
LowerNonNeg(L, M, v) == L >= 0 /\ ~SqGT(M, Abs(L), <<v[2], v[1]>>)
UpperNeg(L, M, v) == L < 0 /\ SqGT(L, M, v)

\* se_pct = (se_diff / prev_mean) * 100.0 if prev_mean > 0 else 0.0: the
\* variance that enters the interval
SeVariance(prev_mean, v) == IF prev_mean > 0 THEN v ELSE <<0, 1>>

\* ci_lower > num/den, where ci_lower = change_pct - Z_95 * se_pct and
\* change_pct = (curr_mean - prev_mean) / prev_mean * 100.0, den > 0.
\* Multiplied through by prev_mean * den (the sense flips when
\* prev_mean < 0, where se_pct is 0):  L - 196 * den * sqrt(V) > 0.
CiLowerGT(curr_mean, prev_mean, v, num, den) ==
    LET L == 100 * den * (curr_mean - prev_mean) - num * prev_mean
    IN  IF prev_mean > 0
        THEN LowerPos(L, Z_95_HUNDREDTHS * den, v)
        ELSE L < 0

\* ci_lower >= num/den
CiLowerGE(curr_mean, prev_mean, v, num, den) ==
    LET L == 100 * den * (curr_mean - prev_mean) - num * prev_mean
    IN  IF prev_mean > 0
        THEN LowerNonNeg(L, Z_95_HUNDREDTHS * den, v)
        ELSE L <= 0

\* ci_upper < num/den, where ci_upper = change_pct + Z_95 * se_pct
CiUpperLT(curr_mean, prev_mean, v, num, den) ==
    LET L == 100 * den * (curr_mean - prev_mean) - num * prev_mean
    IN  IF prev_mean > 0
        THEN UpperNeg(L, Z_95_HUNDREDTHS * den, v)
        ELSE L > 0

\* round(x, 2) in hundredths: the largest r with x >= (2r - 1) / 200, found
\* by bisection between lo (where it holds) and hi (where it does not).
\* AtLeast(r) is passed as the bound kind: "lower", "upper".
BoundAtLeast(kind, curr_mean, prev_mean, v, r) ==
    IF kind = "lower"
    THEN CiLowerGE(curr_mean, prev_mean, v, 2 * r - 1, 200)
    ELSE ~CiUpperLT(curr_mean, prev_mean, v, 2 * r - 1, 200)

RECURSIVE Bisect(_, _, _, _, _, _)
Bisect(kind, curr_mean, prev_mean, v, lo, hi) ==
    IF hi - lo <= 1 THEN lo
    ELSE LET mid == (lo + hi) \div 2
         IN  IF BoundAtLeast(kind, curr_mean, prev_mean, v, mid)
             THEN Bisect(kind, curr_mean, prev_mean, v, mid, hi)
             ELSE Bisect(kind, curr_mean, prev_mean, v, lo, mid)

RECURSIVE RoundFrom(_, _, _, _, _)
RoundFrom(kind, curr_mean, prev_mean, v, span) ==
    IF /\ BoundAtLeast(kind, curr_mean, prev_mean, v, -span)
       /\ ~BoundAtLeast(kind, curr_mean, prev_mean, v, span)
    THEN Bisect(kind, curr_mean, prev_mean, v, -span, span)
    ELSE RoundFrom(kind, curr_mean, prev_mean, v, 2 * span)

\* a slip that cuts the third decimal off instead of rounding
RoundedCiLower_truncated(curr_mean, prev_mean, v) ==
    LET r == RoundFrom("lower", curr_mean, prev_mean, v, 1024)
    IN  IF CiLowerGE(curr_mean, prev_mean, v, r, 100) THEN r ELSE r - 1

\* round(ci_lower, 2), round(ci_upper, 2), round(change_pct, 2)
RoundedCiLower(curr_mean, prev_mean, v) == RoundFrom("lower", curr_mean, prev_mean, v, 1024)
RoundedCiUpper(curr_mean, prev_mean, v) == RoundFrom("upper", curr_mean, prev_mean, v, 1024)
RoundedChange(curr_mean, prev_mean) == RoundFrom("lower", curr_mean, prev_mean, <<0, 1>>, 1024)

----------------------------------------------------------------------------
(* aggregate._compute_regressions                                          *)
(*                                                                         *)
(* An operation entry is a record holding the fields the producer wrote;   *)
(* op.get(f) of a missing field is None, as is a JSON null, so a field     *)
(* that is None is modelled as a field that is not there.                  *)

HasField(entry, name) == name \in DOMAIN entry

\* curr_op.get("iterations", 0)
IterationsOf(op) == IF HasField(op, "iterations") THEN op.iterations ELSE 0

\* a slip that takes a missing deviation for one nanosecond
StddevOrZero_one(op) == IF HasField(op, "stddev_ns") THEN op.stddev_ns ELSE 1

\* (stddev or 0)
StddevOrZero(op) == IF HasField(op, "stddev_ns") THEN op.stddev_ns ELSE 0

\* the `continue` of lines 131-136
SkipsPair(curr_op, prev_op) ==
    \/ ~HasField(curr_op, "mean_ns")
    \/ ~HasField(prev_op, "mean_ns")
    \/ prev_op.mean_ns = 0
    \/ IterationsOf(curr_op) <= 1
    \/ IterationsOf(prev_op) <= 1

\* a slip that reports on >= the threshold instead of > it
DirectionOf_inclusive(curr_mean, prev_mean, v) ==
    IF CiLowerGE(curr_mean, prev_mean, v, REGRESSION_THRESHOLD_PCT, 1) THEN "regression"
    ELSE IF CiUpperLT(curr_mean, prev_mean, v, -REGRESSION_THRESHOLD_PCT, 1) THEN "improvement"
    ELSE "unchanged"

\* lines 151-160: significance and direction
DirectionOf(curr_mean, prev_mean, v) ==
    IF CiLowerGT(curr_mean, prev_mean, v, REGRESSION_THRESHOLD_PCT, 1) THEN "regression"
    ELSE IF CiUpperLT(curr_mean, prev_mean, v, -REGRESSION_THRESHOLD_PCT, 1) THEN "improvement"
    ELSE "unchanged"

\* a slip that writes the two means into each other's field
PairRecords_means_swapped(dataset, op_name, curr_op, prev_op) ==
    IF SkipsPair(curr_op, prev_op) THEN <<>>
    ELSE LET curr_mean == curr_op.mean_ns
             prev_mean == prev_op.mean_ns
             v == SeVariance(prev_mean,
                      VarianceOfDiff(StddevOrZero(curr_op), IterationsOf(curr_op),
                                     StddevOrZero(prev_op), IterationsOf(prev_op)))
             direction == DirectionOf(curr_mean, prev_mean, v)
         IN  IF direction = "unchanged" THEN <<>>
             ELSE << [dataset |-> dataset,
                      operation |-> op_name,
                      previous_mean_ns |-> curr_mean,
                      current_mean_ns |-> prev_mean,
                      change_pct |-> RoundedChange(curr_mean, prev_mean),
                      ci_lower_pct |-> RoundedCiLower(curr_mean, prev_mean, v),
                      ci_upper_pct |-> RoundedCiUpper(curr_mean, prev_mean, v),
                      significant |-> TRUE,
                      direction |-> direction] >>

\* the body of the inner loop for one operation present on both sides: the
\* records it appends (none or one)
PairRecords(dataset, op_name, curr_op, prev_op) ==
    IF SkipsPair(curr_op, prev_op) THEN <<>>
    ELSE LET curr_mean == curr_op.mean_ns
             prev_mean == prev_op.mean_ns
             v == SeVariance(prev_mean,
                      VarianceOfDiff(StddevOrZero(curr_op), IterationsOf(curr_op),
                                     StddevOrZero(prev_op), IterationsOf(prev_op)))
             direction == DirectionOf(curr_mean, prev_mean, v)
         IN  IF direction = "unchanged" THEN <<>>
             ELSE << [dataset |-> dataset,
                      operation |-> op_name,
                      previous_mean_ns |-> prev_mean,
                      current_mean_ns |-> curr_mean,
                      change_pct |-> RoundedChange(curr_mean, prev_mean),
                      ci_lower_pct |-> RoundedCiLower(curr_mean, prev_mean, v),
                      ci_upper_pct |-> RoundedCiUpper(curr_mean, prev_mean, v),
                      significant |-> TRUE,
                      direction |-> direction] >>

\* a slip that ignores whether the previous dataset has the operation and
\* compares against the previous dataset's first operation instead
OperationRecords_any_previous(dataset, curr_ops, prev_ops, i) ==
    IF prev_ops = EmptyDict THEN <<>>
    ELSE PairRecords(dataset, curr_ops[i].k, curr_ops[i].v, prev_ops[1].v)

\* one turn of `for op_name, curr_op in curr_ops.items()`
OperationRecords(dataset, curr_ops, prev_ops, i) ==
    IF ~Has(prev_ops, curr_ops[i].k) THEN <<>>
    ELSE PairRecords(dataset, curr_ops[i].k, curr_ops[i].v, Get(prev_ops, curr_ops[i].k))

RECURSIVE OperationsLoop(_, _, _, _)
OperationsLoop(dataset, curr_ops, prev_ops, i) ==
    IF i > Len(curr_ops) THEN <<>>
    ELSE OperationRecords(dataset, curr_ops, prev_ops, i)
         \o OperationsLoop(dataset, curr_ops, prev_ops, i + 1)

\* curr_ds.get("operations", {})
OperationsOf(ds) == IF HasField(ds, "operations") THEN ds.operations ELSE EmptyDict

\* sdk.get("pipeline", {}).get("datasets", {})
DatasetsOf(sdk) ==
    IF HasField(sdk, "pipeline") /\ HasField(sdk.pipeline, "datasets")
    THEN sdk.pipeline.datasets ELSE EmptyDict

RECURSIVE DatasetsLoop(_, _, _)
DatasetsLoop(curr_datasets, prev_datasets, i) ==
    IF i > Len(curr_datasets) THEN <<>>
    ELSE (IF ~Has(prev_datasets, curr_datasets[i].k) THEN <<>>
          ELSE OperationsLoop(curr_datasets[i].k,
                              OperationsOf(curr_datasets[i].v),
                              OperationsOf(Get(prev_datasets, curr_datasets[i].k)), 1))
         \o DatasetsLoop(curr_datasets, prev_datasets, i + 1)

\* previous_sdks is a dict from sdk id to entry
compute_regressions(current, previous) ==
    LET sdk_id == IF HasField(current, "id") THEN current.id ELSE ""
    IN  IF ~Has(previous, sdk_id) THEN <<>>
        ELSE DatasetsLoop(DatasetsOf(current), DatasetsOf(Get(previous, sdk_id)), 1)

----------------------------------------------------------------------------
(* Canonicalization of operation keys, applied repeatedly                  *)

MaxKeyLen == 3
MaxCalls == 2

KeyAlphabet == {"a", "B", "7", "-", "_"}
ShortKeys == UNION {[1..n -> KeyAlphabet] : n \in 0..MaxKeyLen}

Stems == {S_deserialize, S_serialize, S_aasx}
Tails == {S_xml, S_extract, S_repackage}
Separators == {<<>>, <<"-">>, <<"_">>}
Casings(s) == {s, Capitalized(s), Upper(s)}

\* every spelling of stem + separator + tail: camelCase, PascalCase, dense,
\* hyphenated, snake_case and upper-case forms, the alias tables' keys included
SpelledKeys ==
    UNION {{a \o sep \o b : a \in Casings(stem), b \in Casings(tail)} :
           <<stem, sep, tail>> \in Stems \X Separators \X Tails}

OperationKeys == ShortKeys \cup SpelledKeys \cup CORE_OPERATIONS

InitCanon ==
    /\ pc = "canonicalize"
    /\ raw_op \in OperationKeys
    /\ canonical = <<>>
    /\ IdleTrack /\ IdleReg /\ IdleMain /\ IdleNorm /\ IdleCap /\ IdleVal

\* canonical_operation_id(k), then canonical_operation_id of its own result
Canonicalize ==
    /\ pc = "canonicalize"
    /\ Len(canonical) < MaxCalls
    /\ canonical' = Append(canonical,
            canonical_operation_id(IF canonical = <<>> THEN raw_op
                                   ELSE canonical[Len(canonical)]))
    /\ UNCHANGED <<pc, raw_op, trackVars, regVars, inputVars, aggVars, mainVars, normVars, capVars, valVars>>

NextCanon == Canonicalize

SpecCanon == InitCanon /\ [][NextCanon]_vars

----------------------------------------------------------------------------
(* emit_report.main: one criterion benchmark becomes an operation entry    *)

DatasetNames ==
    {S_wide, S_deep, S_mixed, S_val_, S_val_regex, S_wide_xml, S_aasx_small,
     S_xval_wide, <<"v","a","l">>}

OperationIds ==
    CORE_OPERATIONS \cup
    {S_deserialize_xml, S_serialize_xml, S_aasx_extract, S_aasx_repackage,
     S_deserializeXml, S_aasxextract, <<"v","a","l","i","d","a","t","e","_","x","m","l">>}

\* the figures read from estimates.json and sample.json
Estimates ==
    [mean_ns : {0, 100}, stddev_ns : {0, 10}, sample_count : {0, 100},
     iterations : {0, 5050}]

InitEmit ==
    /\ pc = "emit"
    /\ ds_name \in DatasetNames
    /\ operation \in OperationIds
    /\ stats \in Estimates
    /\ datasets = EmptyDict
    /\ IdleCanon /\ IdleReg /\ IdleMain /\ IdleNorm /\ IdleCap /\ IdleVal

EmitOperation ==
    /\ pc = "emit"
    /\ LET ds == IF Has(datasets, ds_name) THEN Get(datasets, ds_name)
                 ELSE [operations |-> EmptyDict]
           entry == [operation_id |-> operation,
                     operation_track |-> infer_operation_track(ds_name, operation),
                     sample_count |-> stats.sample_count,
                     measurement_semantics |-> "mean_ns_per_operation",
                     failure_state |-> "ok",
                     iterations |-> stats.iterations,
                     mean_ns |-> stats.mean_ns,
                     stddev_ns |-> stats.stddev_ns]
       IN  datasets' = Put(datasets, ds_name,
                [operations |-> Put(ds.operations, operation, entry)])
    /\ pc' = "emitted"
    /\ UNCHANGED <<ds_name, operation, stats, canonVars, regVars, inputVars, aggVars, mainVars, normVars, capVars, valVars>>

NextEmit == EmitOperation

SpecEmit == InitEmit /\ [][NextEmit]_vars

----------------------------------------------------------------------------
(* The regression detector applied to a current entry and a previous index *)

MaxOps == 2

\* sequences over S without repetition: the insertion orders of a dict
Orders(S) ==
    {s \in UNION {[1..n -> S] : n \in 0..Cardinality(S)} :
        \A i, j \in DOMAIN s : i # j => s[i] # s[j]}

\* every record whose fields are among `fields`, field f drawn from vals[f]
RecordsOver(fields, vals) ==
    UNION {{e \in [F -> UNION {vals[f] : f \in F}] : \A f \in F : e[f] \in vals[f]} :
           F \in SUBSET fields}

EntryFields == {"mean_ns", "stddev_ns", "iterations", "sample_count"}

\* a producer that writes both counts runs at least one iteration per sample
CountsAgree(e) ==
    (HasField(e, "iterations") /\ HasField(e, "sample_count"))
        => e.iterations >= e.sample_count

\* the measurements of the compared operation on each side
CurrentEntries ==
    {e \in RecordsOver(EntryFields,
        [mean_ns |-> {0, 94, 95, 100, 105, 106, 110}, stddev_ns |-> {0, 100},
         iterations |-> {1, 2, 10000}, sample_count |-> {1, 2, 10000}]) :
      CountsAgree(e)}

PreviousEntries ==
    {e \in RecordsOver(EntryFields,
        [mean_ns |-> {0, 100, -100}, stddev_ns |-> {0, 100},
         iterations |-> {1, 2, 10000}, sample_count |-> {1, 2, 10000}]) :
      CountsAgree(e)}

\* a clear slowdown, measured well, for the operations beside the compared one
SlowEntry == [mean_ns |-> 200, stddev_ns |-> 0, iterations |-> 10000, sample_count |-> 10000]
BaseEntry == [mean_ns |-> 100, stddev_ns |-> 0, iterations |-> 10000, sample_count |-> 10000]

\* means a few thousandths of a percent off the threshold, against 100000
NearThresholdMeans == {105001, 105004, 105006, 105100, 94999, 94996, 94994, 94900}
NearThresholdEntry(mean) == [mean_ns |-> mean, stddev_ns |-> 0, iterations |-> 10000]

RegDatasetNames == {S_wide, S_val_regex}
RegOperationSeq == <<S_deserialize, S_validate, S_deserialize_xml>>
RegOperationNames == {RegOperationSeq[i] : i \in 1..MaxOps}

\* datasets objects in which every operation holds `entry`
DatasetsWith(entry) ==
    UNION {
        {[i \in DOMAIN dsOrder |->
            [k |-> dsOrder[i],
             v |-> [operations |-> [j \in DOMAIN opsOf[dsOrder[i]] |->
                                       [k |-> opsOf[dsOrder[i]][j], v |-> entry]]]]] :
         opsOf \in [Range(dsOrder) -> Orders(RegOperationNames)]} :
        dsOrder \in Orders(RegDatasetNames)}

\* previous datasets: lookups only, so one insertion order per key set
IsSorted(order, ref) ==
    \A i, j \in DOMAIN order : i < j =>
        (CHOOSE a \in DOMAIN ref : ref[a] = order[i]) < (CHOOSE b \in DOMAIN ref : ref[b] = order[j])

PreviousDatasets ==
    {d \in DatasetsWith(BaseEntry) :
        /\ IsSorted([i \in DOMAIN d |-> d[i].k], <<S_wide, S_val_regex>>)
        /\ \A i \in DOMAIN d :
              IsSorted([j \in DOMAIN d[i].v.operations |-> d[i].v.operations[j].k],
                       RegOperationSeq)}

SdkEntry(id, ds) == [id |-> id, name |-> id, pipeline |-> [datasets |-> ds]]
OneOperation(entry) ==
    << [k |-> S_wide, v |-> [operations |-> << [k |-> S_deserialize, v |-> entry] >>]] >>

\* previous indexes: no entry for the sdk, an entry without a pipeline, an
\* entry with datasets, with or without another sdk's entry beside it
PreviousIndexes(datasetsSet) ==
    { <<>>, << [k |-> "sdk-b", v |-> SdkEntry("sdk-b", OneOperation(BaseEntry))] >>,
      << [k |-> "sdk-a", v |-> [id |-> "sdk-a", name |-> "sdk-a"]] >> }
    \cup { << [k |-> "sdk-a", v |-> SdkEntry("sdk-a", ds)] >> : ds \in datasetsSet }
    \cup { << [k |-> "sdk-b", v |-> SdkEntry("sdk-b", OneOperation(BaseEntry))],
              [k |-> "sdk-a", v |-> SdkEntry("sdk-a", OneOperation(BaseEntry))] >> }

InitRegress ==
    /\ pc = "compare"
    /\ \/ \* one operation on both sides, over every combination of figures
          /\ current_sdk \in {SdkEntry("sdk-a", OneOperation(e)) : e \in CurrentEntries}
          /\ previous_sdks \in
                {<< [k |-> "sdk-a", v |-> SdkEntry("sdk-a", OneOperation(e))] >> :
                    e \in PreviousEntries}
       \/ \* every shape of the two reports, over fixed figures
          /\ current_sdk \in {SdkEntry("sdk-a", ds) : ds \in DatasetsWith(SlowEntry)}
          /\ previous_sdks \in PreviousIndexes(PreviousDatasets)
       \/ \* one operation whose change is close to the threshold
          /\ current_sdk \in {SdkEntry("sdk-a", OneOperation(NearThresholdEntry(mean))) :
                                mean \in NearThresholdMeans}
          /\ previous_sdks =
                << [k |-> "sdk-a",
                    v |-> SdkEntry("sdk-a", OneOperation(NearThresholdEntry(100000)))] >>
    /\ regressions = <<>>
    /\ IdleCanon /\ IdleTrack /\ IdleMain /\ IdleNorm /\ IdleCap /\ IdleVal

ComputeRegressions ==
    /\ pc = "compare"
    /\ regressions' = compute_regressions(current_sdk, previous_sdks)
    /\ pc' = "compared"
    /\ UNCHANGED <<current_sdk, previous_sdks, canonVars, trackVars, inputVars, aggVars, mainVars, normVars, capVars, valVars>>

NextRegress == ComputeRegressions

SpecRegress == InitRegress /\ [][NextRegress]_vars

----------------------------------------------------------------------------
(* aggregate.py: files, entries and the aggregation walk                   *)
(*                                                                         *)
(* A file is absent, present but not parsable, or present with a JSON      *)
(* document.  read_json returns None ([ok |-> FALSE]) for the first two.   *)
(* A JSON value that is not an object (an array, a string, a number) has   *)
(* no .get: it is the record NonObject(truthy), truthy telling whether     *)
(* Python takes it for true ([1]) or false ([]).                           *)

AbsentFile == [kind |-> "absent"]
MalformedFile == [kind |-> "malformed"]
UndecodableFile == [kind |-> "undecodable"]
JsonFile(doc) == [kind |-> "json", doc |-> doc]

NonObject(truthy) == [json_nonobject |-> TRUE, truthy |-> truthy]
IsObject(value) == "json_nonobject" \notin DOMAIN value

\* Path.exists()
Exists(file) == file.kind # "absent"

read_json(file) ==
    IF file.kind = "json" THEN [ok |-> TRUE, value |-> file.doc] ELSE [ok |-> FALSE]

\* json.load of bytes that are no text in the encoding raises
\* UnicodeDecodeError, which none of the except clauses names
ReadRaises(file) == file.kind = "undecodable"

\* truth value of a parsed document: an empty object is false
Truthy(doc) == IF IsObject(doc) THEN DOMAIN doc # {} ELSE doc.truthy

\* names.get(key, default)
GetOr(d, key, default) == IF Has(d, key) THEN Get(d, key) ELSE default

\* _load_names: entries are read in order; an entry without "id" raises
\* KeyError, which ends the loop and keeps the names read so far
RECURSIVE NamesFrom(_, _, _)
NamesFrom(entries, i, acc) ==
    IF i > Len(entries) THEN acc
    ELSE IF ~HasField(entries[i], "id") THEN acc
    ELSE NamesFrom(entries, i + 1,
            Put(acc, entries[i].id,
                IF HasField(entries[i], "name") THEN entries[i].name ELSE entries[i].id))

load_names(file) ==
    IF file.kind # "json" THEN EmptyDict
    ELSE NamesFrom((IF HasField(file.doc, "sdk_benchmarks")
                    THEN file.doc.sdk_benchmarks ELSE <<>>)
                   \o (IF HasField(file.doc, "server_benchmarks")
                       THEN file.doc.server_benchmarks ELSE <<>>),
                   1, EmptyDict)

\* _build_sdk_entry, line 45: report.get on a value without .get raises
SdkEntryRaises(dir) ==
    \/ ReadRaises(dir.report)
    \/ read_json(dir.report).ok /\ ~IsObject(read_json(dir.report).value)
    \/ read_json(dir.report).ok /\ ReadRaises(dir.env)

\* a slip that prefers the report's own name to the name table
build_sdk_entry_metadata_first(entry_name, dir, names_) ==
    LET report_ == read_json(dir.report)
    IN  IF ~report_.ok THEN [ok |-> FALSE]
        ELSE LET sdk_id == IF HasField(report_.value, "sdk_id")
                           THEN report_.value.sdk_id ELSE entry_name
                 name == IF /\ HasField(report_.value, "metadata")
                            /\ HasField(report_.value.metadata, "name")
                         THEN report_.value.metadata.name
                         ELSE GetOr(names_, sdk_id, sdk_id)
                 env == read_json(dir.env)
                 result == [id |-> sdk_id, name |-> name]
                 withEnv == IF env.ok /\ Truthy(env.value)
                            THEN WithField(result, "env", env.value) ELSE result
             IN  [ok |-> TRUE, value |-> WithField(withEnv, "pipeline", report_.value)]

\* _build_sdk_entry: [ok |-> FALSE] is None
build_sdk_entry(entry_name, dir, names_) ==
    LET report_ == read_json(dir.report)
    IN  IF ~report_.ok THEN [ok |-> FALSE]
        ELSE LET sdk_id == IF HasField(report_.value, "sdk_id")
                           THEN report_.value.sdk_id ELSE entry_name
                 declared == IF /\ HasField(report_.value, "metadata")
                                /\ HasField(report_.value.metadata, "name")
                             THEN report_.value.metadata.name ELSE sdk_id
                 name == GetOr(names_, sdk_id, declared)
                 env == read_json(dir.env)
                 result == [id |-> sdk_id, name |-> name]
                 withEnv == IF env.ok /\ Truthy(env.value)
                            THEN WithField(result, "env", env.value) ELSE result
             IN  [ok |-> TRUE, value |-> WithField(withEnv, "pipeline", report_.value)]

\* _build_server_entry
\* _build_server_entry, line 72: env.get on a value without .get raises
ServerEntryRaises(dir) ==
    \/ ReadRaises(dir.env)
    \/ /\ read_json(dir.env).ok
       /\ Truthy(read_json(dir.env).value)
       /\ ~IsObject(read_json(dir.env).value)
    \/ ReadRaises(dir.conformance)
    \/ ReadRaises(dir.k6_summary)
    \/ ReadRaises(dir.k6_crud)

build_server_entry(entry_name, dir, names_) ==
    LET sdk_id == entry_name
        env == read_json(dir.env)
        named == IF env.ok /\ Truthy(env.value)
                 THEN [id |-> sdk_id,
                       name |-> GetOr(names_, sdk_id,
                                      IF HasField(env.value, "sdk_name")
                                      THEN env.value.sdk_name ELSE sdk_id),
                       env |-> env.value]
                 ELSE [id |-> sdk_id, name |-> GetOr(names_, sdk_id, sdk_id)]
        conformance == read_json(dir.conformance)
        withConformance == IF conformance.ok
                           THEN WithField(named, "conformance", conformance.value)
                           ELSE named
        scenarios == read_json(dir.k6_summary)
        crud == read_json(dir.k6_crud)
        benchmarks ==
            IF scenarios.ok /\ crud.ok
            THEN [scenarios |-> scenarios.value, crud |-> crud.value]
            ELSE IF scenarios.ok THEN [scenarios |-> scenarios.value]
            ELSE [crud |-> crud.value]
    IN  [ok |-> TRUE,
         value |-> IF scenarios.ok \/ crud.ok
                   THEN WithField(withConformance, "benchmarks", benchmarks)
                   ELSE withConformance]

\* _build_previous_index
RECURSIVE IndexFrom(_, _, _)
IndexFrom(sdks, i, index) ==
    IF i > Len(sdks) THEN index
    ELSE IndexFrom(sdks, i + 1,
            IF HasField(sdks[i], "id") /\ sdks[i].id # ""
            THEN Put(index, sdks[i].id, sdks[i]) ELSE index)

\* _build_previous_index, line 182: sdk.get on an element without .get raises
PreviousIndexRaises(previous_data) ==
    \E i \in DOMAIN previous_data.sdk_benchmarks :
        ~IsObject(previous_data.sdk_benchmarks[i])

build_previous_index(previous_data) ==
    IndexFrom(IF HasField(previous_data, "sdk_benchmarks")
              THEN previous_data.sdk_benchmarks ELSE <<>>, 1, EmptyDict)

----------------------------------------------------------------------------
(* The inputs of a run                                                     *)

\* the children of the results root, in the order sorted() gives them
ChildOrder == <<"alpha", "beta">>
ChildNames == Range(ChildOrder)

OperationEntry(id, track, mean) ==
    [operation_id |-> id, operation_track |-> track, sample_count |-> 100,
     measurement_semantics |-> "mean_ns_per_operation", failure_state |-> "ok",
     iterations |-> 10000, mean_ns |-> mean, stddev_ns |-> 0]

\* a report in the canonical schema, as emit_report writes it
CanonicalReport(mean) ==
    [schema_version |-> 2, sdk_id |-> "sdk-a",
     metadata |-> [language |-> "rust"],
     datasets |->
        << [k |-> S_wide, v |-> [operations |->
                << [k |-> S_deserialize, v |-> OperationEntry(S_deserialize, "core", mean)],
                   [k |-> S_deserialize_xml,
                    v |-> OperationEntry(S_deserialize_xml, "xml", 100)] >>]],
           [k |-> S_val_regex, v |-> [operations |->
                << [k |-> S_validate,
                    v |-> OperationEntry(S_validate, "validation", 100)] >>]] >>]

\* a report of an older harness: a camelCase key, no operation_id, no
\* sample_count, a track the producer chose, no sdk_id
LegacyReport ==
    [metadata |-> [name |-> "Legacy SDK"],
     datasets |->
        << [k |-> S_wide, v |-> [operations |->
                << [k |-> S_deserializeXml,
                    v |-> [iterations |-> 10, mean_ns |-> 100, stddev_ns |-> 10,
                           operation_track |-> "core"]] >>]] >>]

EnvDoc == [sdk_name |-> "Env Name", os |-> "linux"]
EmptyDoc == <<>>
ConformanceDoc == [passed |-> 10, failed |-> 0]
ScenariosDoc == [http_reqs |-> 100]
CrudDoc == [create_ms |-> 5]

NoFiles ==
    [is_dir |-> TRUE, report |-> AbsentFile, conformance |-> AbsentFile,
     env |-> AbsentFile, k6_summary |-> AbsentFile, k6_crud |-> AbsentFile]

\* what a child of the results root can be: a plain file; a directory with
\* a report (parsable or not), with or without env.json and a conformance
\* summary; a directory without a report and any of the server artifacts;
\* a server directory whose env.json is no object or no text, or whose k6
\* summary is not parsable
Children ==
    {[is_dir |-> FALSE]}
    \cup {[NoFiles EXCEPT !.report = r, !.env = e, !.conformance = c] :
            r \in {JsonFile(CanonicalReport(200)), JsonFile(LegacyReport)},
            e \in {AbsentFile, JsonFile(EmptyDoc), JsonFile(EnvDoc)},
            c \in {AbsentFile, JsonFile(ConformanceDoc)}}
    \cup {[NoFiles EXCEPT !.report = MalformedFile],
          [NoFiles EXCEPT !.report = JsonFile(NonObject(TRUE))]}
    \cup {[NoFiles EXCEPT !.conformance = c, !.env = e, !.k6_summary = s, !.k6_crud = u] :
            c \in {AbsentFile, JsonFile(ConformanceDoc)},
            e \in {AbsentFile, JsonFile(EmptyDoc), JsonFile(EnvDoc)},
            s \in {AbsentFile, JsonFile(ScenariosDoc)},
            u \in {AbsentFile, JsonFile(CrudDoc)}}
    \cup {[NoFiles EXCEPT !.conformance = JsonFile(ConformanceDoc), !.env = e,
                          !.k6_summary = s] :
            e \in {JsonFile(NonObject(TRUE)), JsonFile(NonObject(FALSE)), UndecodableFile},
            s \in {MalformedFile, JsonFile(ScenariosDoc)}}

ResultsDirs ==
    {[is_dir |-> FALSE]}
    \cup UNION {{[is_dir |-> TRUE, children |-> c] : c \in [S -> Children]} :
                S \in SUBSET ChildNames}

KnownSdksFiles ==
    {AbsentFile,
     JsonFile([sdk_benchmarks |-> << [id |-> "sdk-a", name |-> "SDK A"] >>,
               server_benchmarks |-> << [id |-> "beta"] >>])}

\* the previous results.json: not asked for, missing, not parsable, not an
\* object, an object whose library list holds something else than entries,
\* without library entries, or holding the earlier entry of sdk-a
PreviousResults ==
    {[given |-> FALSE],
     [given |-> TRUE, file |-> AbsentFile],
     [given |-> TRUE, file |-> MalformedFile],
     [given |-> TRUE, file |-> JsonFile(NonObject(TRUE))],
     [given |-> TRUE, file |-> JsonFile(NonObject(FALSE))],
     [given |-> TRUE, file |-> JsonFile([sdk_benchmarks |-> << NonObject(TRUE) >>])],
     [given |-> TRUE, file |-> JsonFile([generated_at |-> 0, sdk_benchmarks |-> <<>>,
                                         server_benchmarks |-> <<>>])],
     [given |-> TRUE,
      file |-> JsonFile([generated_at |-> 0,
                         sdk_benchmarks |->
                            << [id |-> "sdk-a", name |-> "SDK A",
                                pipeline |-> CanonicalReport(100)] >>,
                         server_benchmarks |-> <<>>])]}

Clock == {1, 2}

----------------------------------------------------------------------------
(* main: aggregate, annotate regressions, write                            *)

Init ==
    /\ pc = "main"
    /\ results_dir \in ResultsDirs
    /\ known_sdks \in KnownSdksFiles
    /\ previous_results \in PreviousResults
    /\ names = EmptyDict /\ todo = <<>>
    /\ sdk_benchmarks = <<>> /\ server_benchmarks = <<>>
    /\ prev_index = EmptyDict /\ cursor = 0 /\ regression_count = 0
    /\ stdout = <<>> /\ output = <<>>
    /\ IdleCanon /\ IdleTrack /\ IdleReg /\ IdleNorm /\ IdleCap /\ IdleVal

\* a slip that walks iterdir() as the file system hands it out
SortedListing_unsorted(dir) ==
    LET listing == SelectSeq(ChildOrder, LAMBDA n : n \in DOMAIN dir.children)
    IN  [i \in DOMAIN listing |-> listing[Len(listing) + 1 - i]]

\* sorted(results_dir.iterdir())
SortedListing(dir) ==
    SelectSeq(ChildOrder, LAMBDA n : n \in DOMAIN dir.children)

\* aggregate(), up to the loop: lines 209-217
StartAggregate ==
    /\ pc = "main"
    /\ IF ~results_dir.is_dir
       THEN names' = names /\ todo' = <<>> /\ pc' = "walk"
       ELSE IF ReadRaises(known_sdks)
       THEN names' = names /\ todo' = SortedListing(results_dir) /\ pc' = "raised"
       ELSE names' = load_names(known_sdks) /\ todo' = SortedListing(results_dir)
            /\ pc' = "walk"
    /\ UNCHANGED <<sdk_benchmarks, server_benchmarks, inputVars, mainVars,
                   canonVars, trackVars, regVars, normVars, capVars, valVars>>

Head_(s) == results_dir.children[Head(s)]

\* lines 218-219
SkipNonDirectory ==
    /\ pc = "walk" /\ todo # <<>>
    /\ ~Head_(todo).is_dir
    /\ todo' = Tail(todo)
    /\ UNCHANGED <<pc, names, sdk_benchmarks, server_benchmarks, inputVars, mainVars,
                   canonVars, trackVars, regVars, normVars, capVars, valVars>>

\* lines 222-225
VisitLibraryDirectory ==
    /\ pc = "walk" /\ todo # <<>>
    /\ Head_(todo).is_dir
    /\ Exists(Head_(todo).report)
    /\ IF SdkEntryRaises(Head_(todo))
       THEN pc' = "raised" /\ UNCHANGED <<sdk_benchmarks, todo>>
       ELSE /\ LET sdk_entry == build_sdk_entry(Head(todo), Head_(todo), names)
               IN  sdk_benchmarks' = IF sdk_entry.ok
                                     THEN Append(sdk_benchmarks, sdk_entry.value)
                                     ELSE sdk_benchmarks
            /\ todo' = Tail(todo)
            /\ pc' = pc
    /\ UNCHANGED <<names, server_benchmarks, inputVars, mainVars,
                   canonVars, trackVars, regVars, normVars, capVars, valVars>>

\* a slip that tests for the conformance summary without the else
VisitServerDirectory_ignoring_report ==
    /\ pc = "walk" /\ todo # <<>>
    /\ Head_(todo).is_dir
    /\ Exists(Head_(todo).conformance)
    /\ IF ServerEntryRaises(Head_(todo))
       THEN pc' = "raised" /\ UNCHANGED <<server_benchmarks, todo>>
       ELSE /\ LET server_entry == build_server_entry(Head(todo), Head_(todo), names)
               IN  server_benchmarks' = IF server_entry.ok
                                        THEN Append(server_benchmarks, server_entry.value)
                                        ELSE server_benchmarks
            /\ todo' = Tail(todo)
            /\ pc' = pc
    /\ UNCHANGED <<names, sdk_benchmarks, inputVars, mainVars,
                   canonVars, trackVars, regVars, normVars, capVars, valVars>>

\* lines 226-229
VisitServerDirectory ==
    /\ pc = "walk" /\ todo # <<>>
    /\ Head_(todo).is_dir
    /\ ~Exists(Head_(todo).report)
    /\ Exists(Head_(todo).conformance)
    /\ IF ServerEntryRaises(Head_(todo))
       THEN pc' = "raised" /\ UNCHANGED <<server_benchmarks, todo>>
       ELSE /\ LET server_entry == build_server_entry(Head(todo), Head_(todo), names)
               IN  server_benchmarks' = IF server_entry.ok
                                        THEN Append(server_benchmarks, server_entry.value)
                                        ELSE server_benchmarks
            /\ todo' = Tail(todo)
            /\ pc' = pc
    /\ UNCHANGED <<names, sdk_benchmarks, inputVars, mainVars,
                   canonVars, trackVars, regVars, normVars, capVars, valVars>>

\* lines 230-234: the fallback
VisitOtherDirectory ==
    /\ pc = "walk" /\ todo # <<>>
    /\ Head_(todo).is_dir
    /\ ~Exists(Head_(todo).report)
    /\ ~Exists(Head_(todo).conformance)
    /\ IF ServerEntryRaises(Head_(todo))
       THEN pc' = "raised" /\ UNCHANGED <<server_benchmarks, todo>>
       ELSE /\ LET server_entry == build_server_entry(Head(todo), Head_(todo), names)
               IN  server_benchmarks' = IF server_entry.ok
                                        THEN Append(server_benchmarks, server_entry.value)
                                        ELSE server_benchmarks
            /\ todo' = Tail(todo)
            /\ pc' = pc
    /\ UNCHANGED <<names, sdk_benchmarks, inputVars, mainVars,
                   canonVars, trackVars, regVars, normVars, capVars, valVars>>

\* lines 262-266: aggregate() has returned
ReadPrevious ==
    /\ pc = "walk" /\ todo = <<>>
    /\ LET previous_data == IF previous_results.given
                            THEN read_json(previous_results.file) ELSE [ok |-> FALSE]
       IN  IF previous_results.given /\ ReadRaises(previous_results.file)
           THEN pc' = "raised" /\ UNCHANGED <<prev_index, cursor>>
           ELSE IF ~previous_data.ok \/ ~Truthy(previous_data.value)
           THEN pc' = "write" /\ UNCHANGED <<prev_index, cursor>>
           ELSE IF ~IsObject(previous_data.value)
           THEN pc' = "raised" /\ UNCHANGED <<prev_index, cursor>>
           ELSE IF \/ ~HasField(previous_data.value, "sdk_benchmarks")
                   \/ previous_data.value.sdk_benchmarks = <<>>
           THEN pc' = "write" /\ UNCHANGED <<prev_index, cursor>>
           ELSE IF PreviousIndexRaises(previous_data.value)
           THEN pc' = "raised" /\ UNCHANGED <<prev_index, cursor>>
           ELSE /\ prev_index' = build_previous_index(previous_data.value)
                /\ cursor' = 1
                /\ pc' = "compare"
    /\ UNCHANGED <<regression_count, stdout, output, inputVars, aggVars,
                   canonVars, trackVars, regVars, normVars, capVars, valVars>>

\* a slip that attaches the list whether or not it holds a record
CompareEntry_always_attaching ==
    /\ pc = "compare" /\ cursor <= Len(sdk_benchmarks)
    /\ LET regs == compute_regressions(sdk_benchmarks[cursor], prev_index)
       IN  /\ sdk_benchmarks' =
                  [sdk_benchmarks EXCEPT
                      ![cursor] = WithField(sdk_benchmarks[cursor], "regressions", regs)]
           /\ regression_count' = regression_count + Len(regs)
    /\ cursor' = cursor + 1
    /\ UNCHANGED <<pc, names, todo, server_benchmarks, prev_index, stdout, output,
                   inputVars, canonVars, trackVars, regVars, normVars, capVars, valVars>>

\* a slip that rebuilds the entry around its regressions and loses the rest
CompareEntry_rebuilding_entry ==
    /\ pc = "compare" /\ cursor <= Len(sdk_benchmarks)
    /\ LET regs == compute_regressions(sdk_benchmarks[cursor], prev_index)
       IN  IF regs # <<>>
           THEN /\ sdk_benchmarks' =
                      [sdk_benchmarks EXCEPT
                          ![cursor] = [id |-> sdk_benchmarks[cursor].id,
                                       name |-> sdk_benchmarks[cursor].name,
                                       regressions |-> regs]]
                /\ regression_count' = regression_count + Len(regs)
           ELSE UNCHANGED <<sdk_benchmarks, regression_count>>
    /\ cursor' = cursor + 1
    /\ UNCHANGED <<pc, names, todo, server_benchmarks, prev_index, stdout, output,
                   inputVars, canonVars, trackVars, regVars, normVars, capVars, valVars>>

\* lines 267-271: one turn of the loop over sdk_benchmarks
CompareEntry ==
    /\ pc = "compare" /\ cursor <= Len(sdk_benchmarks)
    /\ LET regs == compute_regressions(sdk_benchmarks[cursor], prev_index)
       IN  IF regs # <<>>
           THEN /\ sdk_benchmarks' =
                      [sdk_benchmarks EXCEPT
                          ![cursor] = WithField(sdk_benchmarks[cursor], "regressions", regs)]
                /\ regression_count' = regression_count + Len(regs)
           ELSE UNCHANGED <<sdk_benchmarks, regression_count>>
    /\ cursor' = cursor + 1
    /\ UNCHANGED <<pc, names, todo, server_benchmarks, prev_index, stdout, output,
                   inputVars, canonVars, trackVars, regVars, normVars, capVars, valVars>>

\* lines 272-275
PrintRegressions ==
    /\ pc = "compare" /\ cursor > Len(sdk_benchmarks)
    /\ stdout' = Append(stdout,
            IF regression_count > 0
            THEN [line |-> "detected", count |-> regression_count]
            ELSE [line |-> "none"])
    /\ pc' = "write"
    /\ UNCHANGED <<prev_index, cursor, regression_count, output, inputVars, aggVars,
                   canonVars, trackVars, regVars, normVars, capVars, valVars>>

\* a slip that leaves an empty list out of the document
WriteOutput_dropping_empty_lists ==
    /\ pc = "write"
    /\ \E now \in Clock :
          output' = LET stamped == [generated_at |-> now]
                        withSdk == IF sdk_benchmarks = <<>> THEN stamped
                                   ELSE WithField(stamped, "sdk_benchmarks", sdk_benchmarks)
                    IN  IF server_benchmarks = <<>> THEN withSdk
                        ELSE WithField(withSdk, "server_benchmarks", server_benchmarks)
    /\ stdout' = Append(stdout,
            [line |-> "aggregated",
             total |-> Len(sdk_benchmarks) + Len(server_benchmarks),
             sdk |-> Len(sdk_benchmarks), server |-> Len(server_benchmarks)])
    /\ pc' = "done"
    /\ UNCHANGED <<prev_index, cursor, regression_count, inputVars, aggVars,
                   canonVars, trackVars, regVars, normVars, capVars, valVars>>

\* lines 277-292
WriteOutput ==
    /\ pc = "write"
    /\ \E now \in Clock :
          output' = [generated_at |-> now, sdk_benchmarks |-> sdk_benchmarks,
                     server_benchmarks |-> server_benchmarks]
    /\ stdout' = Append(stdout,
            [line |-> "aggregated",
             total |-> Len(sdk_benchmarks) + Len(server_benchmarks),
             sdk |-> Len(sdk_benchmarks), server |-> Len(server_benchmarks)])
    /\ pc' = "done"
    /\ UNCHANGED <<prev_index, cursor, regression_count, inputVars, aggVars,
                   canonVars, trackVars, regVars, normVars, capVars, valVars>>

Next ==
    \/ StartAggregate
    \/ SkipNonDirectory
    \/ VisitLibraryDirectory
    \/ VisitServerDirectory
    \/ VisitOtherDirectory
    \/ ReadPrevious
    \/ CompareEntry
    \/ PrintRegressions
    \/ WriteOutput

Spec == Init /\ [][Next]_vars

----------------------------------------------------------------------------
(* The Report Normalizer, normalize(report) -> (normalized, rename map).   *)
(* aggregate.py of this tree does not define normalize_pipeline_report,    *)
(* which test_aggregate.py calls; it is modelled from its contract.         *)

\* the entry stored under the canonical key: operation_id stamped, track
\* classified, sample_count taken from iterations when not supplied
NormalizeEntry_keep_producer_id(dataset, key, entry) ==
    LET stamped == IF HasField(entry, "operation_id") THEN entry
                   ELSE WithField(entry, "operation_id", key)
        tracked == WithField(stamped, "operation_track", infer_operation_track(dataset, key))
    IN  IF ~HasField(tracked, "sample_count") /\ HasField(tracked, "iterations")
        THEN WithField(tracked, "sample_count", tracked.iterations)
        ELSE tracked

\* a slip that overwrites a supplied sample_count with iterations
NormalizeEntry_always_backfill(dataset, key, entry) ==
    LET stamped == WithField(entry, "operation_id", key)
        tracked == WithField(stamped, "operation_track", infer_operation_track(dataset, key))
    IN  IF HasField(tracked, "iterations")
        THEN WithField(tracked, "sample_count", tracked.iterations)
        ELSE tracked

NormalizeEntry(dataset, key, entry) ==
    LET stamped == WithField(entry, "operation_id", key)
        tracked == WithField(stamped, "operation_track", infer_operation_track(dataset, key))
    IN  IF ~HasField(tracked, "sample_count") /\ HasField(tracked, "iterations")
        THEN WithField(tracked, "sample_count", tracked.iterations)
        ELSE tracked

\* a slip that keeps the first entry of a canonical id and drops the later
NormalizeOperations_first_wins(dataset, ops, i, acc) ==
    LET keep == {j \in DOMAIN ops :
                    \A h \in 1..(j - 1) :
                        canonical_operation_id(ops[h].k) # canonical_operation_id(ops[j].k)}
        idx == CHOOSE f \in [1..Cardinality(keep) -> keep] :
                    \A a, b \in 1..Cardinality(keep) : a < b => f[a] < f[b]
    IN  [n \in 1..Cardinality(keep) |->
            [k |-> canonical_operation_id(ops[idx[n]].k),
             v |-> NormalizeEntry(dataset, canonical_operation_id(ops[idx[n]].k),
                                  ops[idx[n]].v)]]

\* re-keying of one dataset's operations, in the producer's order; a later
\* key that canonicalizes to an id already present overwrites it
RECURSIVE NormalizeOperations(_, _, _, _)
NormalizeOperations(dataset, ops, i, acc) ==
    IF i > Len(ops) THEN acc
    ELSE LET key == canonical_operation_id(ops[i].k)
         IN  NormalizeOperations(dataset, ops, i + 1,
                Put(acc, key, NormalizeEntry(dataset, key, ops[i].v)))

RECURSIVE RenameOperations(_, _, _)
RenameOperations(ops, i, acc) ==
    IF i > Len(ops) THEN acc
    ELSE RenameOperations(ops, i + 1, Put(acc, ops[i].k, canonical_operation_id(ops[i].k)))

ReportDatasets(report_) == IF HasField(report_, "datasets") THEN report_.datasets ELSE EmptyDict
DatasetOperations(ds) == IF HasField(ds, "operations") THEN ds.operations ELSE EmptyDict

RECURSIVE RenameDatasets(_, _, _)
RenameDatasets(dss, i, acc) ==
    IF i > Len(dss) THEN acc
    ELSE RenameDatasets(dss, i + 1, RenameOperations(DatasetOperations(dss[i].v), 1, acc))

normalize_pipeline_report(report_) ==
    LET dss == ReportDatasets(report_)
    IN  [normalized |->
            WithField(report_, "datasets",
                [i \in 1..Len(dss) |->
                    [k |-> dss[i].k,
                     v |-> WithField(dss[i].v, "operations",
                              NormalizeOperations(dss[i].k, DatasetOperations(dss[i].v),
                                                  1, EmptyDict))]]),
         op_map |-> RenameDatasets(dss, 1, EmptyDict)]

MaxReportOps == 2

S_old == <<"o", "l", "d">>

\* what a producer may have written for one operation
ProducerEntries ==
    LET counts == {[iterations |-> 10], [iterations |-> 10, sample_count |-> 3], <<>>}
        plain == {WithField(c, "mean_ns", 100) : c \in counts}
    IN  plain \cup {WithField(WithField(e, "operation_id", S_old),
                              "operation_track", "core") : e \in plain}

ProducerKeys == {S_deserializeXml, S_deserialize_xml, S_validate, S_aasxextract}

DistinctKeys(s) == \A i, j \in 1..Len(s) : i # j => s[i] # s[j]

ProducerOperations ==
    UNION {{[i \in 1..n |-> [k |-> ks[i], v |-> es[i]]] :
                ks \in {s \in [1..n -> ProducerKeys] : DistinctKeys(s)},
                es \in [1..n -> ProducerEntries]} : n \in 1..MaxReportOps}

LegacyDataset ==
    [k |-> S_deep,
     v |-> [operations |-> << [k |-> S_serializeXml,
                               v |-> [mean_ns |-> 100, iterations |-> 10]] >>]]

ProducerReports ==
    {[metadata |-> [name |-> "Legacy SDK"],
      datasets |-> << [k |-> d, v |-> [operations |-> ops]] >> \o more] :
        d \in {S_wide, S_val_regex}, ops \in ProducerOperations,
        more \in {<<>>, <<LegacyDataset>>}}

InitNormalize ==
    /\ pc = "normalize"
    /\ report \in ProducerReports
    /\ normalized = <<>> /\ op_map = <<>>
    /\ IdleCanon /\ IdleTrack /\ IdleReg /\ IdleMain /\ IdleCap /\ IdleVal

Normalize ==
    /\ pc = "normalize"
    /\ LET result == normalize_pipeline_report(report)
       IN  normalized' = result.normalized /\ op_map' = result.op_map
    /\ pc' = "normalized"
    /\ UNCHANGED <<report, canonVars, trackVars, regVars, inputVars, aggVars, mainVars, capVars, valVars>>

NextNormalize == Normalize

SpecNormalize == InitNormalize /\ [][NextNormalize]_vars

----------------------------------------------------------------------------
(* The Capability Deriver, derive_capabilities(report) ->                  *)
(* (capabilities, core_eligible).  aggregate.py of this tree does not      *)
(* define it; test_aggregate.py calls it, and it is modelled from its      *)
(* contract, with the track rule and the core sets of the source.          *)

\* the (dataset, operation) pairs of a report
ReportPairs(report_) ==
    UNION {{<<ReportDatasets(report_)[d].k, key>> :
                key \in DictKeys(DatasetOperations(ReportDatasets(report_)[d].v))} :
           d \in DOMAIN ReportDatasets(report_)}

\* a slip that asks every pair of the report to be in the track
HasTrack_every_pair(report_, track) ==
    \A pair \in ReportPairs(report_) : infer_operation_track(pair[1], pair[2]) = track

HasTrack(report_, track) ==
    \E pair \in ReportPairs(report_) : infer_operation_track(pair[1], pair[2]) = track

derive_capabilities(report_) ==
    [capabilities |-> [core |-> HasTrack(report_, "core"),
                       validation |-> HasTrack(report_, "validation"),
                       xml |-> HasTrack(report_, "xml"),
                       aasx |-> HasTrack(report_, "aasx")],
     core_eligible |->
        \A dataset \in CORE_DATASETS :
            /\ Has(ReportDatasets(report_), dataset)
            /\ \A op \in CORE_OPERATIONS :
                  Has(DatasetOperations(Get(ReportDatasets(report_), dataset)), op)]

MaxMissing == 2

DeriveDatasetSeq == <<S_wide, S_deep, S_mixed, S_val_regex, S_xval_wide, S_aasx_small>>
DeriveOperationSeq == <<S_deserialize, S_validate, S_traverse, S_update, S_serialize,
                        S_deserialize_xml, S_aasx_extract>>

\* the report holding exactly the pairs given, every entry the empty object
ReportOf(pairs) ==
    LET dss == SelectSeq(DeriveDatasetSeq, LAMBDA d : \E pair \in pairs : pair[1] = d)
    IN  [datasets |->
            [i \in DOMAIN dss |->
                [k |-> dss[i],
                 v |-> [operations |->
                          LET ops == SelectSeq(DeriveOperationSeq,
                                               LAMBDA o : <<dss[i], o>> \in pairs)
                          IN  [j \in DOMAIN ops |-> [k |-> ops[j], v |-> EmptyDoc]]]]]]

CoreGrid == CORE_DATASETS \X CORE_OPERATIONS

\* pairs outside the core grid: an xml operation on a core dataset, the
\* validation pair, an aasx pair, validate on a dataset that only contains
\* "val_", a core operation on a dataset outside the core three
ExtraPairs ==
    {<<S_wide, S_deserialize_xml>>, <<S_val_regex, S_validate>>,
     <<S_aasx_small, S_aasx_extract>>, <<S_xval_wide, S_validate>>,
     <<S_val_regex, S_deserialize>>}

\* the full grid less a few pairs, with any extras; and sparse reports
DeriveReports ==
    {ReportOf((CoreGrid \ missing) \cup extra) :
        missing \in {m \in SUBSET CoreGrid : Cardinality(m) <= MaxMissing},
        extra \in SUBSET ExtraPairs}
    \cup {ReportOf(pairs) :
            pairs \in SUBSET (ExtraPairs \cup {<<S_wide, S_deserialize>>, <<S_deep, S_validate>>})}

InitDerive ==
    /\ pc = "derive"
    /\ report \in DeriveReports
    /\ normalized = <<>> /\ op_map = <<>>
    /\ capabilities = <<>> /\ core_eligible = FALSE
    /\ IdleCanon /\ IdleTrack /\ IdleReg /\ IdleMain /\ IdleVal

Derive ==
    /\ pc = "derive"
    /\ LET result == derive_capabilities(report)
       IN  capabilities' = result.capabilities /\ core_eligible' = result.core_eligible
    /\ pc' = "derived"
    /\ UNCHANGED <<canonVars, trackVars, regVars, inputVars, aggVars, mainVars, normVars,
                   valVars>>

NextDerive == Derive

SpecDerive == InitDerive /\ [][NextDerive]_vars

----------------------------------------------------------------------------
(* validate_report.validate_report                                         *)
(*                                                                         *)
(* The validator tests the type of the values it reads, so the documents   *)
(* given to it carry their JSON type: an object with its items in order, a *)
(* string with its characters, null (Python's None), or another value (an  *)
(* array, a number, a boolean).                                            *)

JObject(items) == [type |-> "object", items |-> items]
JString(chars) == [type |-> "string", chars |-> chars]
JNull == [type |-> "null"]
JOther == [type |-> "other"]

\* isinstance(value, dict)
IsDict(value) == value.type = "object"

\* obj.get(key): None when the key is absent
JGet(obj, key) == IF Has(obj.items, key) THEN Get(obj.items, key) ELSE JNull

REQUIRED == <<"operation_id", "operation_track", "sample_count",
              "measurement_semantics", "failure_state", "mean_ns">>

RECURSIVE Flatten(_)
Flatten(lists) == IF lists = <<>> THEN <<>> ELSE Head(lists) \o Flatten(Tail(lists))

\* lines 68-98: the body of the loop over the operations of a dataset
OperationProblems(dataset_name, op_key, op_entry) ==
    LET canonical_ == canonical_operation_id(op_key)
        key_problem ==
            IF op_key # canonical_
            THEN << [kind |-> "non_canonical_key", dataset |-> dataset_name, op |-> op_key] >>
            ELSE <<>>
    IN  IF IsDict(op_entry)
        THEN LET op_id == JGet(op_entry, "operation_id")
                 missing == SelectSeq(REQUIRED, LAMBDA k : ~Has(op_entry.items, k))
             IN  key_problem
                 \o (IF op_id # JNull /\ op_id # JString(canonical_)
                     THEN << [kind |-> "mismatched_operation_id", dataset |-> dataset_name,
                              op |-> op_key] >>
                     ELSE <<>>)
                 \o (IF missing # <<>>
                     THEN << [kind |-> "missing_fields", dataset |-> dataset_name,
                              op |-> op_key, missing |-> missing] >>
                     ELSE <<>>)
        ELSE key_problem
             \o << [kind |-> "operation_not_object", dataset |-> dataset_name, op |-> op_key] >>

\* lines 58-66: a dataset whose operations the loop can walk
HasOperations(dataset_entry) ==
    /\ IsDict(dataset_entry)
    /\ IsDict(JGet(dataset_entry, "operations"))
    /\ JGet(dataset_entry, "operations").items # <<>>

\* lines 58-98: the body of the loop over the datasets
DatasetProblems(dataset_name, dataset_entry) ==
    IF ~IsDict(dataset_entry)
    THEN << [kind |-> "dataset_not_object", dataset |-> dataset_name] >>
    ELSE IF ~HasOperations(dataset_entry)
    THEN << [kind |-> "no_operations", dataset |-> dataset_name] >>
    ELSE LET operations == JGet(dataset_entry, "operations").items
         IN  Flatten([i \in DOMAIN operations |->
                        OperationProblems(dataset_name, operations[i].k, operations[i].v)])

\* op_count after the loop
OpCount(datasets_) ==
    LET counts == [i \in DOMAIN datasets_ |->
                    IF HasOperations(datasets_[i].v)
                    THEN Len(JGet(datasets_[i].v, "operations").items) ELSE 0]
        sum[i \in 0..Len(counts)] == IF i = 0 THEN 0 ELSE sum[i - 1] + counts[i]
    IN  sum[Len(counts)]

\* validate_report: [raised |-> TRUE] when an exception leaves the function
validate_report(file) ==
    IF file.kind # "json"
    THEN [raised |-> FALSE, errors |-> << [kind |-> "parse"] >>]
    ELSE IF ~IsDict(file.doc)
    THEN [raised |-> TRUE]
    ELSE LET datasets_ == JGet(file.doc, "datasets")
         IN  IF ~IsDict(datasets_) \/ datasets_.items = <<>>
             THEN [raised |-> FALSE, errors |-> << [kind |-> "no_dataset"] >>]
             ELSE [raised |-> FALSE,
                   errors |->
                      Flatten([i \in DOMAIN datasets_.items |->
                                 DatasetProblems(datasets_.items[i].k, datasets_.items[i].v)])
                      \o (IF OpCount(datasets_.items) = 0
                          THEN << [kind |-> "no_operation"] >> ELSE <<>>)]

MaxValOps == 2

ValKeySeq == <<S_deserialize, S_deserializeXml, S_aasxextract>>
ValKeys == {ValKeySeq[i] : i \in 1..3}

\* the fields of an entry other than operation_id, all or less two
OtherFields ==
    {<< [k |-> "operation_track", v |-> JString(<<"c", "o", "r", "e">>)],
        [k |-> "sample_count", v |-> JOther],
        [k |-> "measurement_semantics", v |-> JOther],
        [k |-> "failure_state", v |-> JOther],
        [k |-> "mean_ns", v |-> JOther] >>,
     << [k |-> "operation_track", v |-> JString(<<"c", "o", "r", "e">>)],
        [k |-> "measurement_semantics", v |-> JOther],
        [k |-> "failure_state", v |-> JOther] >>}

\* what stands under operation_id for a key: nothing, its canonical form,
\* the key itself, another id, null
OperationIds_(key) ==
    {<<>>} \cup {<< [k |-> "operation_id", v |-> id] >> :
                    id \in {JString(canonical_operation_id(key)), JString(key),
                            JString(S_old), JNull}}

ValEntries(key) ==
    {JOther} \cup {JObject(id \o rest) : id \in OperationIds_(key), rest \in OtherFields}

\* the operations objects of at most n operations
ValOperations(n) ==
    UNION {{[i \in DOMAIN ks |-> [k |-> ks[i], v |-> es[i]]] :
                es \in {e \in [DOMAIN ks -> UNION {ValEntries(k) : k \in ValKeys}] :
                            \A i \in DOMAIN ks : e[i] \in ValEntries(ks[i])}} :
           ks \in {s \in UNION {[1..m -> ValKeys] : m \in 1..n} : DistinctKeys(s)}}

GoodEntry(key) ==
    JObject(<< [k |-> "operation_id", v |-> JString(key)] >>
            \o CHOOSE rest \in OtherFields : Len(rest) = 5)

\* the shapes of a dataset entry, whatever its operations
FirstDatasets(n) ==
    {JOther, JObject(<<>>), JObject(<< [k |-> "operations", v |-> JOther] >>),
     JObject(<< [k |-> "operations", v |-> JObject(<<>>)] >>)}
    \cup {JObject(<< [k |-> "operations", v |-> JObject(ops)] >>) : ops \in ValOperations(n)}

\* a dataset beside it: without operations, or with one complete entry
\* under a key that is not canonical
SecondDatasets ==
    {JObject(<< [k |-> "operations", v |-> JObject(<<>>)] >>),
     JObject(<< [k |-> "operations",
                 v |-> JObject(<< [k |-> S_serializeXml,
                                   v |-> GoodEntry(S_serialize_xml)] >>)] >>)}

ValidatorFiles(n) ==
    {AbsentFile, MalformedFile, JsonFile(JOther), JsonFile(JNull),
     JsonFile(JObject(<<>>)),
     JsonFile(JObject(<< [k |-> "datasets", v |-> JOther] >>)),
     JsonFile(JObject(<< [k |-> "datasets", v |-> JObject(<<>>)] >>))}
    \cup {JsonFile(JObject(<< [k |-> "datasets",
                              v |-> JObject(<< [k |-> S_wide, v |-> first] >> \o more)] >>)) :
            first \in FirstDatasets(n),
            more \in {<<>>} \cup {<< [k |-> S_deep, v |-> second] >> : second \in SecondDatasets}}

InitValidate ==
    /\ pc = "validate"
    /\ path \in ValidatorFiles(MaxValOps)
    /\ errors = <<>>
    /\ IdleCanon /\ IdleTrack /\ IdleReg /\ IdleMain /\ IdleNorm /\ IdleCap

\* validate_report returns its list
ValidateReturns ==
    /\ pc = "validate"
    /\ ~validate_report(path).raised
    /\ errors' = validate_report(path).errors
    /\ pc' = "validated"
    /\ UNCHANGED <<path, canonVars, trackVars, regVars, inputVars, aggVars, mainVars,
                   normVars, capVars>>

\* line 52: report.get raises AttributeError
ValidateRaises ==
    /\ pc = "validate"
    /\ validate_report(path).raised
    /\ pc' = "raised"
    /\ UNCHANGED <<path, errors, canonVars, trackVars, regVars, inputVars, aggVars,
                   mainVars, normVars, capVars>>

NextValidate == ValidateReturns \/ ValidateRaises

SpecValidate == InitValidate /\ [][NextValidate]_vars

----------------------------------------------------------------------------
(* C2: a directory with no report, no conformance summary and no fallback  *)
(* artifact contributes no entry to sdk_benchmarks or server_benchmarks.   *)

BareDirectory(child) == child = NoFiles

EntriesOf(name) ==
    {i \in 1..Len(sdk_benchmarks) : sdk_benchmarks[i].id = name}
    \cup {Len(sdk_benchmarks) + i : i \in {j \in 1..Len(server_benchmarks) :
                                            server_benchmarks[j].id = name}}

\* C2: once the walk is over, no entry carries the id of a directory that
\* holds none of report.json, conformance_summary.json, env.json,
\* k6_summary_<id>.json, k6_crud_<id>.json
C2_BareDirectoryContributesNothing ==
    (pc \in {"compare", "write", "done"} /\ results_dir.is_dir) =>
        \A name \in DOMAIN results_dir.children :
            BareDirectory(results_dir.children[name]) => EntriesOf(name) = {}

----------------------------------------------------------------------------
(* C3: the pipeline of every library entry is the normalized report.       *)

IsNormalizedReport(r) ==
    \A d \in 1..Len(ReportDatasets(r)) :
        LET ds == ReportDatasets(r)[d]
            ops == DatasetOperations(ds.v)
        IN  \A o \in 1..Len(ops) :
                /\ canonical_operation_id(ops[o].k) = ops[o].k
                /\ HasField(ops[o].v, "operation_id")
                /\ ops[o].v.operation_id = ops[o].k
                /\ HasField(ops[o].v, "operation_track")
                /\ ops[o].v.operation_track = infer_operation_track(ds.k, ops[o].k)

\* C3: in the document written, every operation key of every library
\* entry's pipeline is canonical and equals the entry's operation_id, and
\* every operation_track is the classification of (dataset, operation id)
C3_PipelineIsNormalized ==
    pc = "done" =>
        \A i \in 1..Len(output.sdk_benchmarks) :
            IsNormalizedReport(output.sdk_benchmarks[i].pipeline)

----------------------------------------------------------------------------
(* C5: after normalization every entry's operation_id is its key.          *)

\* C5: every operation entry of every dataset of the normalized report has
\* an operation_id equal to the key it is stored under
C5_OperationIdIsKey ==
    pc = "normalized" =>
        \A d \in 1..Len(normalized.datasets) :
            \A o \in 1..Len(normalized.datasets[d].v.operations) :
                LET item == normalized.datasets[d].v.operations[o]
                IN  HasField(item.v, "operation_id") /\ item.v.operation_id = item.k

\* a report whose producer wrote another operation_id under a legacy key
C5_Witness ==
    /\ pc = "normalized"
    /\ \E o \in 1..Len(report.datasets[1].v.operations) :
          LET item == report.datasets[1].v.operations[o]
          IN  /\ canonical_operation_id(item.k) # item.k
              /\ HasField(item.v, "operation_id")
              /\ item.v.operation_id # canonical_operation_id(item.k)

----------------------------------------------------------------------------
(* C4: canonicalization is idempotent: canonicalizing a canonical id, for  *)
(* any key (alias-table keys, dense forms, hyphenated and camelCase keys), *)
(* returns it unchanged.                                                   *)
C4_CanonicalizeIdempotent ==
    \A i \in 2..Len(canonical) : canonical[i] = canonical[i - 1]

\* a key that misses the explicit table, is lowercased by the structural
\* transform and then hits the dense-form table, canonicalized twice
C4_Witness ==
    /\ Len(canonical) = 2
    /\ ~InTable(explicit, raw_op)
    /\ Lower(raw_op) # raw_op
    /\ InTable(dense_map, Lower(ReplaceHyphens(CamelToSnake(raw_op))))

\* C6: the operation track of an emitted entry is decided by (dataset name,
\* operation id) alone, in the precedence xml, aasx, validation (validate on
\* a val_ dataset), core (a core operation on wide, deep or mixed), and
\* capability for every other pair, whatever the entry's other fields are.
C6_TrackRule ==
    pc = "emitted" =>
        LET track == Get(Get(datasets, ds_name).operations, operation).operation_track
            isVal == Len(ds_name) >= 4 /\ ds_name[1] = "v" /\ ds_name[2] = "a"
                     /\ ds_name[3] = "l" /\ ds_name[4] = "_"
        IN  track = CASE operation \in {S_deserialize_xml, S_serialize_xml} -> "xml"
                      [] operation \in {S_aasx_extract, S_aasx_repackage} -> "aasx"
                      [] /\ operation \notin {S_deserialize_xml, S_serialize_xml,
                                              S_aasx_extract, S_aasx_repackage}
                         /\ operation = S_validate /\ isVal -> "validation"
                      [] /\ ~(operation = S_validate /\ isVal)
                         /\ operation \in {S_deserialize, S_validate, S_traverse,
                                           S_update, S_serialize}
                         /\ ds_name \in {S_wide, S_deep, S_mixed} -> "core"
                      [] OTHER -> "capability"

\* validate on a core dataset is classified core, not validation
C6_Witness ==
    /\ pc = "emitted"
    /\ ds_name = S_wide /\ operation = S_validate
    /\ Get(Get(datasets, ds_name).operations, operation).operation_track = "core"
    /\ stats.sample_count # stats.iterations

----------------------------------------------------------------------------
(* Statements about the regression detector                                *)

PreviousEntryFound ==
    HasField(current_sdk, "id") /\ Has(previous_sdks, current_sdk.id)
CurrentDatasets == DatasetsOf(current_sdk)
PreviousDatasetsFound ==
    IF PreviousEntryFound THEN DatasetsOf(Get(previous_sdks, current_sdk.id))
    ELSE EmptyDict
CurrentOp(d, o) == Get(OperationsOf(Get(CurrentDatasets, d)), o)
PreviousOp(d, o) == Get(OperationsOf(Get(PreviousDatasetsFound, d)), o)

\* the (dataset, operation) pairs present in both reports
SharedPairs ==
    UNION {{<<d, o>> : o \in DictKeys(OperationsOf(Get(CurrentDatasets, d)))
                          \cap DictKeys(OperationsOf(Get(PreviousDatasetsFound, d)))} :
           d \in DictKeys(CurrentDatasets) \cap DictKeys(PreviousDatasetsFound)}

\* the returned records about a pair
RecordsOf(d, o) ==
    {i \in DOMAIN regressions :
        regressions[i].dataset = d /\ regressions[i].operation = o}

\* the pair's returned records are exactly what `direction` calls for
ReportedAs(d, o, direction) ==
    IF direction = "unchanged" THEN RecordsOf(d, o) = {}
    ELSE /\ Cardinality(RecordsOf(d, o)) = 1
         /\ \A i \in RecordsOf(d, o) : regressions[i].direction = direction

\* an operation's sample count: its sample_count, or its iterations when
\* the producer gave no sample_count
SampleCount(op) ==
    IF HasField(op, "sample_count") THEN op.sample_count ELSE IterationsOf(op)

\* an entry that carries both counts, so that its sample count can only be
\* its sample_count
CarriesBothCounts(op) == HasField(op, "sample_count") /\ HasField(op, "iterations")

\* the interval's variance and the verdict with n = the sample count
SampleVariance(c, p) ==
    SeVariance(p.mean_ns, VarianceOfDiff(StddevOrZero(c), SampleCount(c),
                                         StddevOrZero(p), SampleCount(p)))
SkippedBySampleCount(c, p) ==
    \/ ~HasField(c, "mean_ns") \/ ~HasField(p, "mean_ns")
    \/ p.mean_ns = 0
    \/ SampleCount(c) <= 1 \/ SampleCount(p) <= 1

\* C1: the n of the skip test and of the standard error is the sample
\* count: a pair whose entries carry sample_count is skipped when either
\* sample_count is <= 1 and is otherwise judged on the interval computed
\* with n = sample_count (110 vs 100, stddev 100, iterations 10000,
\* sample_count 2: no record).
C1_SampleCountIsN ==
    pc = "compared" =>
        \A pair \in SharedPairs :
            LET c == CurrentOp(pair[1], pair[2])
                p == PreviousOp(pair[1], pair[2])
            IN  (CarriesBothCounts(c) /\ CarriesBothCounts(p)) =>
                    IF SkippedBySampleCount(c, p)
                    THEN RecordsOf(pair[1], pair[2]) = {}
                    ELSE ReportedAs(pair[1], pair[2],
                            DirectionOf(c.mean_ns, p.mean_ns, SampleVariance(c, p)))

\* C7: every returned record is significant: a compared pair is returned as
\* a regression exactly when ci_lower > 5, as an improvement exactly when
\* ci_upper < -5, and not at all otherwise; no record is "unchanged" or not
\* significant.
C7_OnlySignificant ==
    pc = "compared" =>
        /\ \A i \in DOMAIN regressions :
              /\ regressions[i].significant = TRUE
              /\ regressions[i].direction \in {"regression", "improvement"}
              /\ <<regressions[i].dataset, regressions[i].operation>> \in SharedPairs
        /\ \A pair \in SharedPairs :
              LET c == CurrentOp(pair[1], pair[2])
                  p == PreviousOp(pair[1], pair[2])
                  recs == RecordsOf(pair[1], pair[2])
              IN  ~SkipsPair(c, p) =>
                      LET v == SeVariance(p.mean_ns,
                                  VarianceOfDiff(StddevOrZero(c), IterationsOf(c),
                                                 StddevOrZero(p), IterationsOf(p)))
                          above == CiLowerGT(c.mean_ns, p.mean_ns, v, 5, 1)
                          below == CiUpperLT(c.mean_ns, p.mean_ns, v, -5, 1)
                      IN  /\ (\E i \in recs : regressions[i].direction = "regression")
                                <=> above
                          /\ (\E i \in recs : regressions[i].direction = "improvement")
                                <=> below
                          /\ (~above /\ ~below) => recs = {}

\* an improvement whose interval has a width, beside none other
C7_Witness ==
    /\ pc = "compared"
    /\ \E i \in DOMAIN regressions :
          /\ regressions[i].direction = "improvement"
          /\ regressions[i].ci_lower_pct < regressions[i].change_pct
          /\ regressions[i].ci_upper_pct > regressions[i].change_pct

\* C8: a pair is skipped (no record, no failure) whenever a mean is absent,
\* the previous mean is zero or the sample count of either side is <= 1,
\* and no other pair is skipped: any other pair whose interval clears the
\* threshold is returned.  Stated of entries that carry both counts.
C8_SkipRule ==
    pc = "compared" =>
        \A pair \in SharedPairs :
            LET c == CurrentOp(pair[1], pair[2])
                p == PreviousOp(pair[1], pair[2])
            IN  (CarriesBothCounts(c) /\ CarriesBothCounts(p)) =>
                    IF SkippedBySampleCount(c, p)
                    THEN RecordsOf(pair[1], pair[2]) = {}
                    ELSE DirectionOf(c.mean_ns, p.mean_ns, SampleVariance(c, p))
                            # "unchanged" => RecordsOf(pair[1], pair[2]) # {}

\* C9: 110 against 100 with stddev 100 on both sides is returned as a
\* regression when the sample count is 10000 on both sides and is not
\* returned when the sample count is 2 on both sides.  Stated of entries
\* that carry both counts.
C9_SampleSizeDecides ==
    pc = "compared" =>
        \A pair \in SharedPairs :
            LET c == CurrentOp(pair[1], pair[2])
                p == PreviousOp(pair[1], pair[2])
            IN  (/\ CarriesBothCounts(c) /\ CarriesBothCounts(p)
                 /\ HasField(c, "mean_ns") /\ HasField(p, "mean_ns")
                 /\ c.mean_ns = 110 /\ p.mean_ns = 100
                 /\ HasField(c, "stddev_ns") /\ HasField(p, "stddev_ns")
                 /\ c.stddev_ns = 100 /\ p.stddev_ns = 100) =>
                    /\ (SampleCount(c) = 10000 /\ SampleCount(p) = 10000)
                          => ReportedAs(pair[1], pair[2], "regression")
                    /\ (SampleCount(c) = 2 /\ SampleCount(p) = 2)
                          => RecordsOf(pair[1], pair[2]) = {}

\* C10: with no previous entry of the current entry's id the result is
\* empty; otherwise every record is about a (dataset, operation) pair that
\* both reports hold, and no pair has two records.
C10_OnlySharedPairs ==
    pc = "compared" =>
        /\ ~PreviousEntryFound => regressions = <<>>
        /\ \A i \in DOMAIN regressions :
              <<regressions[i].dataset, regressions[i].operation>> \in SharedPairs
        /\ \A i, j \in DOMAIN regressions :
              (/\ regressions[i].dataset = regressions[j].dataset
               /\ regressions[i].operation = regressions[j].operation) => i = j

\* records were returned although the current report has a dataset the
\* previous one lacks and, in a shared dataset, an operation it lacks
C10_Witness ==
    /\ pc = "compared"
    /\ regressions # <<>>
    /\ DictKeys(CurrentDatasets) \ DictKeys(PreviousDatasetsFound) # {}
    /\ \E d \in DictKeys(CurrentDatasets) \cap DictKeys(PreviousDatasetsFound) :
          DictKeys(OperationsOf(Get(CurrentDatasets, d)))
              \ DictKeys(OperationsOf(Get(PreviousDatasetsFound, d))) # {}

\* the percentage change of a pair is above +5, below -5, or neither,
\* decided on the two means alone
ChangeVerdict(c, p) ==
    LET gain == 100 * (c.mean_ns - p.mean_ns)
        five == REGRESSION_THRESHOLD_PCT * p.mean_ns
    IN  IF p.mean_ns > 0
        THEN (IF gain > five THEN "regression"
              ELSE IF gain < -five THEN "improvement" ELSE "unchanged")
        ELSE (IF gain < five THEN "regression"
              ELSE IF gain > -five THEN "improvement" ELSE "unchanged")

NoDeviation(c, p) == ~HasField(c, "stddev_ns") /\ ~HasField(p, "stddev_ns")

\* C26: a compared pair without a standard deviation on either side is
\* returned exactly when its percentage change is above +5 (as a
\* regression) or below -5 (as an improvement), and its record has ci_lower
\* = ci_upper = change_pct; the missing deviation never leaves the pair out.
C26_MissingStddevIsZero ==
    pc = "compared" =>
        \A pair \in SharedPairs :
            LET c == CurrentOp(pair[1], pair[2])
                p == PreviousOp(pair[1], pair[2])
            IN  (~SkipsPair(c, p) /\ NoDeviation(c, p)) =>
                    /\ ReportedAs(pair[1], pair[2], ChangeVerdict(c, p))
                    /\ \A i \in RecordsOf(pair[1], pair[2]) :
                          /\ regressions[i].ci_lower_pct = regressions[i].change_pct
                          /\ regressions[i].ci_upper_pct = regressions[i].change_pct

\* a pair without deviations, down by six percent, returned as an improvement
C26_Witness ==
    /\ pc = "compared"
    /\ Len(regressions) = 1
    /\ regressions[1].direction = "improvement"
    /\ regressions[1].change_pct = -600
    /\ regressions[1].ci_upper_pct = -600
    /\ NoDeviation(CurrentOp(regressions[1].dataset, regressions[1].operation),
                   PreviousOp(regressions[1].dataset, regressions[1].operation))

\* the pair a record is about, and the variance of its interval
RecordCurrent(i) == CurrentOp(regressions[i].dataset, regressions[i].operation)
RecordPrevious(i) == PreviousOp(regressions[i].dataset, regressions[i].operation)
RecordVariance(i) ==
    SeVariance(RecordPrevious(i).mean_ns,
               VarianceOfDiff(StddevOrZero(RecordCurrent(i)), IterationsOf(RecordCurrent(i)),
                              StddevOrZero(RecordPrevious(i)), IterationsOf(RecordPrevious(i))))

\* C29 as written: on the reported figures a regression has ci_lower_pct
\* above 5 and an improvement has ci_upper_pct below -5.
C29_ReportedBoundsClearThreshold ==
    pc = "compared" =>
        \A i \in DOMAIN regressions :
            /\ regressions[i].direction = "regression" =>
                  regressions[i].ci_lower_pct > 100 * REGRESSION_THRESHOLD_PCT
            /\ regressions[i].direction = "improvement" =>
                  regressions[i].ci_upper_pct < -100 * REGRESSION_THRESHOLD_PCT

\* C29, amended: the reported bounds are the interval's bounds rounded to
\* the nearest hundredth; the bound itself is above 5 for a regression and
\* below -5 for an improvement, so the reported ci_lower_pct of a
\* regression is at least 5.00 and the reported ci_upper_pct of an
\* improvement at most -5.00.
C29_ReportedBoundsReachThreshold ==
    pc = "compared" =>
        \A i \in DOMAIN regressions :
            LET c == RecordCurrent(i).mean_ns
                p == RecordPrevious(i).mean_ns
                v == RecordVariance(i)
                lower == regressions[i].ci_lower_pct
                upper == regressions[i].ci_upper_pct
            IN  /\ CiLowerGE(c, p, v, 2 * lower - 1, 200)
                /\ ~CiLowerGE(c, p, v, 2 * lower + 1, 200)
                /\ ~CiUpperLT(c, p, v, 2 * upper - 1, 200)
                /\ CiUpperLT(c, p, v, 2 * upper + 1, 200)
                /\ regressions[i].direction = "regression" =>
                      /\ CiLowerGT(c, p, v, REGRESSION_THRESHOLD_PCT, 1)
                      /\ lower >= 100 * REGRESSION_THRESHOLD_PCT
                /\ regressions[i].direction = "improvement" =>
                      /\ CiUpperLT(c, p, v, -REGRESSION_THRESHOLD_PCT, 1)
                      /\ upper <= -100 * REGRESSION_THRESHOLD_PCT

\* a regression of 5.001 percent, reported with ci_lower_pct 5.00
C29_Witness ==
    /\ pc = "compared"
    /\ Len(regressions) = 1
    /\ regressions[1].direction = "regression"
    /\ regressions[1].current_mean_ns = 105001
    /\ regressions[1].ci_lower_pct = 100 * REGRESSION_THRESHOLD_PCT

\* the figures of a record in their order, and the means it holds
FiguresInOrder(i) ==
    /\ regressions[i].ci_lower_pct <= regressions[i].change_pct
    /\ regressions[i].change_pct <= regressions[i].ci_upper_pct
HoldsInputMeans(i) ==
    /\ regressions[i].current_mean_ns = RecordCurrent(i).mean_ns
    /\ regressions[i].previous_mean_ns = RecordPrevious(i).mean_ns
MeansAgreeWithDirection(i) ==
    /\ regressions[i].direction = "regression" =>
          regressions[i].current_mean_ns > regressions[i].previous_mean_ns
    /\ regressions[i].direction = "improvement" =>
          regressions[i].current_mean_ns < regressions[i].previous_mean_ns

\* no compared pair has its lower bound above 5 and its upper bound below -5
NeverBoth ==
    \A pair \in SharedPairs :
        LET c == CurrentOp(pair[1], pair[2])
            p == PreviousOp(pair[1], pair[2])
        IN  (~SkipsPair(c, p) /\ p.mean_ns > 0) =>
                LET v == SeVariance(p.mean_ns,
                            VarianceOfDiff(StddevOrZero(c), IterationsOf(c),
                                           StddevOrZero(p), IterationsOf(p)))
                    above == CiLowerGT(c.mean_ns, p.mean_ns, v, REGRESSION_THRESHOLD_PCT, 1)
                    below == CiUpperLT(c.mean_ns, p.mean_ns, v, -REGRESSION_THRESHOLD_PCT, 1)
                IN  /\ ~(above /\ below)
                    /\ above => ChangeVerdict(c, p) = "regression"
                    /\ below => ChangeVerdict(c, p) = "improvement"

\* C30 as written: the interval lies around the change, and every record
\* of a regression has the current mean above the previous one, every
\* record of an improvement below it, the means being those of the input.
C30_DirectionFollowsMeans ==
    pc = "compared" =>
        /\ NeverBoth
        /\ \A i \in DOMAIN regressions :
              /\ RecordPrevious(i).mean_ns > 0 => FiguresInOrder(i)
              /\ HoldsInputMeans(i)
              /\ MeansAgreeWithDirection(i)

\* C30, amended: the same, the order of the means being stated of the
\* records whose previous mean is positive.
C30_DirectionFollowsPositiveMeans ==
    pc = "compared" =>
        /\ NeverBoth
        /\ \A i \in DOMAIN regressions :
              /\ HoldsInputMeans(i)
              /\ RecordPrevious(i).mean_ns > 0 =>
                    (FiguresInOrder(i) /\ MeansAgreeWithDirection(i))

\* a regression over a positive previous mean whose interval has a width
C30_Witness ==
    /\ pc = "compared"
    /\ \E i \in DOMAIN regressions :
          /\ regressions[i].direction = "regression"
          /\ regressions[i].previous_mean_ns > 0
          /\ regressions[i].ci_lower_pct < regressions[i].change_pct
          /\ regressions[i].change_pct < regressions[i].ci_upper_pct

----------------------------------------------------------------------------
(* Statements about the capability deriver                                 *)

PairsPresent == ReportPairs(report)

FifteenPairs ==
    {S_wide, S_deep, S_mixed}
        \X {S_deserialize, S_validate, S_traverse, S_update, S_serialize}

\* C11: core_eligible is true exactly when each of wide, deep and mixed is
\* present with all five of deserialize, validate, traverse, update and
\* serialize: one missing combination makes the report ineligible, and
\* further datasets or operations change nothing.
C11_CoreEligible ==
    pc = "derived" => (core_eligible <=> FifteenPairs \subseteq PairsPresent)

\* a report with fourteen of the fifteen combinations and extras beside them
C11_Witness ==
    /\ pc = "derived"
    /\ Cardinality(FifteenPairs \cap PairsPresent) = 14
    /\ PairsPresent \ FifteenPairs # {}
    /\ ~core_eligible
    /\ capabilities.core

IsValPrefixed(name) ==
    Len(name) >= 4 /\ name[1] = "v" /\ name[2] = "a" /\ name[3] = "l" /\ name[4] = "_"

\* the track the rule of 4.1 gives a pair, written out
RuleTrack(pair) ==
    CASE pair[2] \in {S_deserialize_xml, S_serialize_xml} -> "xml"
      [] pair[2] \in {S_aasx_extract, S_aasx_repackage} -> "aasx"
      [] pair[2] = S_validate /\ IsValPrefixed(pair[1]) -> "validation"
      [] /\ pair[2] \in {S_deserialize, S_traverse, S_update, S_serialize}
            \/ (pair[2] = S_validate /\ ~IsValPrefixed(pair[1]))
         /\ pair[1] \in {S_wide, S_deep, S_mixed} -> "core"
      [] OTHER -> "capability"

\* C12: the capabilities are the four booleans core, validation, xml and
\* aasx, each true exactly when some (dataset, operation) pair of the report
\* is classified into that track.
C12_Capabilities ==
    pc = "derived" =>
        /\ DOMAIN capabilities = {"core", "validation", "xml", "aasx"}
        /\ \A track \in DOMAIN capabilities :
              capabilities[track] <=> (\E pair \in PairsPresent : RuleTrack(pair) = track)

\* an xml operation on a core dataset counts for xml and not for core, and
\* validate on a dataset that is not val_-prefixed does not count for validation
C12_Witness ==
    /\ pc = "derived"
    /\ PairsPresent = {<<S_wide, S_deserialize_xml>>, <<S_xval_wide, S_validate>>}
    /\ capabilities = [core |-> FALSE, validation |-> FALSE, xml |-> TRUE, aasx |-> FALSE]

\* C24: a report that is core eligible has the core capability; a report
\* whose only operation is one core-track operation has the core capability
\* and is not core eligible.
C24_EligibleImpliesCore ==
    pc = "derived" =>
        /\ core_eligible => capabilities.core
        /\ (Cardinality(PairsPresent) = 1 /\ PairsPresent \subseteq FifteenPairs) =>
              (capabilities.core /\ ~core_eligible)

\* the report with deserialize on wide and nothing else
C24_Witness ==
    /\ pc = "derived"
    /\ PairsPresent = {<<S_wide, S_deserialize>>}
    /\ capabilities.core
    /\ ~core_eligible

----------------------------------------------------------------------------
(* Statements about the aggregation walk and main                          *)

ChildrenOf == IF results_dir.is_dir THEN results_dir.children ELSE <<>>
DirectoryNames == DOMAIN ChildrenOf

\* aggregate() has been entered; the children visited so far
Walking == pc # "main" /\ results_dir.is_dir
Visited == DirectoryNames \ Range(todo)

\* aggregate() has returned
AggregateReturned == pc \in {"compare", "write", "done"} \/ (pc = "raised" /\ todo = <<>>)

ServerEntriesOf(name) == {i \in DOMAIN server_benchmarks : server_benchmarks[i].id = name}

IsDirectory(name) == ChildrenOf[name].is_dir
HoldsReport(name) == IsDirectory(name) /\ ChildrenOf[name].report.kind # "absent"
HoldsConformance(name) == IsDirectory(name) /\ ChildrenOf[name].conformance.kind # "absent"
ReportParses(name) ==
    /\ HoldsReport(name)
    /\ ChildrenOf[name].report.kind = "json"
    /\ IsObject(ChildrenOf[name].report.doc)

\* C13: every child of the results root contributes at most one entry, by
\* the first tier that matches: with report.json a library entry (one per
\* readable report) and never a server entry, also when a conformance
\* summary lies beside it; else with conformance_summary.json a server
\* entry; else nothing but the fallback server construction.  A child that
\* is not a directory contributes nothing.
C13_FirstTierWins ==
    Walking =>
        /\ Len(sdk_benchmarks) = Cardinality({name \in Visited : ReportParses(name)})
        /\ \A i \in DOMAIN server_benchmarks : server_benchmarks[i].id \in Visited
        /\ \A name \in Visited :
              /\ Cardinality(ServerEntriesOf(name)) <= 1
              /\ (~IsDirectory(name) \/ HoldsReport(name)) => ServerEntriesOf(name) = {}
              /\ (HoldsConformance(name) /\ ~HoldsReport(name)) =>
                    \E i \in ServerEntriesOf(name) :
                        HasField(server_benchmarks[i], "conformance")
        /\ Len(sdk_benchmarks) + Len(server_benchmarks)
              <= Cardinality({name \in Visited : IsDirectory(name)})

\* a directory with both report.json and a conformance summary beside a
\* directory with the summary only
C13_Witness ==
    /\ pc = "done"
    /\ DirectoryNames = {"alpha", "beta"}
    /\ HoldsReport("alpha") /\ HoldsConformance("alpha") /\ ReportParses("alpha")
    /\ ~HoldsReport("beta") /\ HoldsConformance("beta")
    /\ Len(sdk_benchmarks) = 1
    /\ Len(server_benchmarks) = 1 /\ server_benchmarks[1].id = "beta"

\* the document the validator was given, when it parsed to an object with
\* a non-empty datasets object: its datasets in order; else the empty list
CheckedDatasets ==
    IF path.kind = "json" /\ path.doc.type = "object"
       /\ Has(path.doc.items, "datasets")
       /\ Get(path.doc.items, "datasets").type = "object"
    THEN Get(path.doc.items, "datasets").items
    ELSE <<>>

\* the operations of a dataset entry, when it has an operations object
CheckedOperations(dataset_entry) ==
    IF dataset_entry.type = "object" /\ Has(dataset_entry.items, "operations")
       /\ Get(dataset_entry.items, "operations").type = "object"
    THEN Get(dataset_entry.items, "operations").items
    ELSE <<>>

\* an operation_id field is present and is not the canonical form of the key
IdMismatched(op_key, op_entry) ==
    /\ op_entry.type = "object"
    /\ Has(op_entry.items, "operation_id")
    /\ Get(op_entry.items, "operation_id") # JString(canonical_operation_id(op_key))

WellFormedEntry(op_key, op_entry) ==
    /\ op_key = canonical_operation_id(op_key)
    /\ op_entry.type = "object"
    /\ \A i \in DOMAIN REQUIRED : Has(op_entry.items, REQUIRED[i])
    /\ ~IdMismatched(op_key, op_entry)

WellFormedDocument ==
    /\ CheckedDatasets # <<>>
    /\ \A i \in DOMAIN CheckedDatasets :
          LET operations == CheckedOperations(CheckedDatasets[i].v)
          IN  /\ operations # <<>>
              /\ \A j \in DOMAIN operations :
                    WellFormedEntry(operations[j].k, operations[j].v)

\* C14: the validator returns the empty list exactly for a document with a
\* non-empty datasets object whose datasets each have a non-empty operations
\* object, whose operation keys are canonical, whose entries are objects
\* with the six required fields, and whose operation_id fields, where
\* present, are the canonical form of their key.
C14_EmptyIffWellFormed ==
    pc = "validated" => (errors = <<>> <=> WellFormedDocument)

\* how often a problem stands in the returned list
Reported(problem) == Cardinality({i \in DOMAIN errors : errors[i] = problem})

\* C15: every defect is reported once, whatever else is wrong with the
\* document: a report without datasets, each dataset with an empty
\* operations object, each operation key that is not canonical, and each
\* operation_id that is present and is not the canonical form of its key.
C15_EachDefectReported ==
    (pc = "validated" /\ path.kind = "json") =>
        IF CheckedDatasets = <<>>
        THEN errors = << [kind |-> "no_dataset"] >>
        ELSE \A i \in DOMAIN CheckedDatasets :
                LET name == CheckedDatasets[i].k
                    entry == CheckedDatasets[i].v
                    operations == CheckedOperations(entry)
                IN  /\ (entry.type = "object" /\ operations = <<>>) =>
                          Reported([kind |-> "no_operations", dataset |-> name]) = 1
                    /\ \A j \in DOMAIN operations :
                          LET key == operations[j].k
                          IN  /\ Reported([kind |-> "non_canonical_key", dataset |-> name,
                                           op |-> key])
                                    = IF key # canonical_operation_id(key) THEN 1 ELSE 0
                              /\ Reported([kind |-> "mismatched_operation_id",
                                           dataset |-> name, op |-> key])
                                    = IF IdMismatched(key, operations[j].v) THEN 1 ELSE 0

\* C16: for every file, parsable or not, and whatever stands at the top
\* level of its document, the validator returns a list: no exception leaves
\* it.
C16_ReturnsAList ==
    path # <<>> => pc \in {"validate", "validated"}

\* a previous-results file that is no usable prior output
UnusablePrevious ==
    /\ results_dir # <<>>
    /\ previous_results.given
    /\ \/ previous_results.file.kind # "json"
       \/ ~IsObject(previous_results.file.doc)
       \/ ~HasField(previous_results.file.doc, "sdk_benchmarks")
       \/ previous_results.file.doc.sdk_benchmarks = <<>>
       \/ \E i \in DOMAIN previous_results.file.doc.sdk_benchmarks :
             ~IsObject(previous_results.file.doc.sdk_benchmarks[i])

WithoutRegressions(entries) == \A i \in DOMAIN entries : ~HasField(entries[i], "regressions")

\* C17: with a previous-results path whose file is missing, unparsable or
\* no valid prior output, the run does not fail once the entries are
\* aggregated: it attaches no regressions and writes the document with all
\* of the aggregated entries.
C17_UnusablePreviousStillWrites ==
    UnusablePrevious =>
        /\ ~(pc = "raised" /\ todo = <<>>)
        /\ pc # "compare"
        /\ pc = "done" =>
              /\ output.sdk_benchmarks = sdk_benchmarks
              /\ output.server_benchmarks = server_benchmarks
              /\ WithoutRegressions(output.sdk_benchmarks)

\* the library entry appended by a step and the directory it was built from
AppendsLibraryEntry == Len(sdk_benchmarks') = Len(sdk_benchmarks) + 1
AppendedEntry == sdk_benchmarks'[Len(sdk_benchmarks')]
SourceDirectory == Head(todo)
SourceReport == ChildrenOf[SourceDirectory].report.doc
DeclaresName == HasField(SourceReport, "metadata") /\ HasField(SourceReport.metadata, "name")

\* C18 as written: the name table's value for the entry id, else the
\* report's metadata name, else the name of the result directory.
C18_NameByDirectory ==
    [][AppendsLibraryEntry =>
          AppendedEntry.name =
              IF Has(names, AppendedEntry.id) THEN Get(names, AppendedEntry.id)
              ELSE IF DeclaresName THEN SourceReport.metadata.name
              ELSE SourceDirectory]_vars

\* C18, amended: the name table's value for the entry id, else the
\* report's metadata name, else the entry id, which is the report's sdk_id
\* when it has one and the name of the result directory when it has none.
C18_NameById ==
    [][AppendsLibraryEntry =>
          /\ AppendedEntry.id = IF HasField(SourceReport, "sdk_id")
                                THEN SourceReport.sdk_id ELSE SourceDirectory
          /\ AppendedEntry.name =
                IF Has(names, AppendedEntry.id) THEN Get(names, AppendedEntry.id)
                ELSE IF DeclaresName THEN SourceReport.metadata.name
                ELSE AppendedEntry.id]_vars

\* the three sources of a name, each taken: the table over the metadata
\* name, the metadata name, and the sdk_id of a report in a directory of
\* another name
C18_Witness ==
    /\ pc = "done"
    /\ Len(sdk_benchmarks) = 2
    /\ known_sdks.kind = "json"
    /\ sdk_benchmarks[1].id = "alpha" /\ sdk_benchmarks[1].name = "Legacy SDK"
    /\ sdk_benchmarks[2].id = "beta" /\ sdk_benchmarks[2].name = "beta"
    /\ ChildrenOf["beta"].report.doc = LegacyReport

Rank(name) == CHOOSE i \in DOMAIN ChildOrder : ChildOrder[i] = name

\* an assignment of the entries of a list to directories, ascending in the
\* order of the directory names
AscendingSources(n) ==
    {f \in [1..n -> DirectoryNames] : \A i, j \in 1..n : i < j => Rank(f[i]) < Rank(f[j])}

\* the steps aggregate() can take from a state
EnabledSteps ==
    {i \in 1..5 :
        CASE i = 1 -> ENABLED StartAggregate
          [] i = 2 -> ENABLED SkipNonDirectory
          [] i = 3 -> ENABLED VisitLibraryDirectory
          [] i = 4 -> ENABLED VisitServerDirectory
          [] i = 5 -> ENABLED VisitOtherDirectory}

\* C19: the entries of sdk_benchmarks and of server_benchmarks stand in the
\* ascending order of the names of the directories they were built from;
\* and a run has one step to take at a time, so that two runs over the same
\* tree and name table build the same lists (the timestamp apart).
C19_OrderedAndRepeatable ==
    /\ Cardinality(EnabledSteps) <= 1
    /\ (AggregateReturned /\ results_dir.is_dir) =>
          /\ \E f \in AscendingSources(Len(server_benchmarks)) :
                \A i \in DOMAIN server_benchmarks : server_benchmarks[i].id = f[i]
          /\ \E f \in AscendingSources(Len(sdk_benchmarks)) :
                \A i \in DOMAIN sdk_benchmarks :
                    /\ ReportParses(f[i])
                    /\ sdk_benchmarks[i].pipeline = ChildrenOf[f[i]].report.doc
                    /\ sdk_benchmarks[i].id \in {f[i], "sdk-a"}

\* two library directories with different reports and two server
\* directories, each pair in the order of the directory names
C19_Witness ==
    /\ pc = "done"
    /\ \/ /\ Len(sdk_benchmarks) = 2
          /\ sdk_benchmarks[1].pipeline # sdk_benchmarks[2].pipeline
          /\ sdk_benchmarks[1].pipeline = ChildrenOf["alpha"].report.doc
       \/ /\ Len(server_benchmarks) = 2
          /\ server_benchmarks[1].id = "alpha" /\ server_benchmarks[2].id = "beta"

EmptyRoot == results_dir # <<>> /\ (~results_dir.is_dir \/ DirectoryNames = {})

----------------------------------------------------------------------------
(* Statements about the normalizer                                         *)

\* the operations the producer wrote in dataset d of the report, and the
\* operations of the same dataset after normalization
WrittenOperations(d) == DatasetOperations(report.datasets[d].v)
NormalizedOperations(d) == normalized.datasets[d].v.operations

\* the entry the producer wrote last among those whose key has canonical id c
LastWritten(d, c) ==
    LET ops == WrittenOperations(d)
        last == CHOOSE i \in DOMAIN ops :
                    /\ canonical_operation_id(ops[i].k) = c
                    /\ \A j \in DOMAIN ops :
                          canonical_operation_id(ops[j].k) = c => j <= i
    IN  ops[last].v

\* what normalization may change in an entry
StampedFields == {"operation_id", "operation_track", "sample_count"}

SameButStamped(written, stored) ==
    /\ DOMAIN written \subseteq DOMAIN stored
    /\ DOMAIN stored \subseteq DOMAIN written \cup StampedFields
    /\ \A f \in DOMAIN written \ StampedFields : stored[f] = written[f]

Colliding(d) ==
    \E i, j \in DOMAIN WrittenOperations(d) :
        /\ i < j
        /\ canonical_operation_id(WrittenOperations(d)[i].k)
              = canonical_operation_id(WrittenOperations(d)[j].k)
        /\ WrittenOperations(d)[i].v # WrittenOperations(d)[j].v

\* C21: the rename map sends every key the producer wrote to its canonical
\* id; each normalized dataset holds one entry for each canonical id of its
\* written keys and no other, and that entry is made of the entry written
\* last under a key of that id.
C21_RekeyedLastWins ==
    pc = "normalized" =>
        /\ Len(normalized.datasets) = Len(report.datasets)
        /\ \A d \in DOMAIN report.datasets :
              /\ normalized.datasets[d].k = report.datasets[d].k
              /\ \A i \in DOMAIN WrittenOperations(d) :
                    LET k == WrittenOperations(d)[i].k
                    IN  /\ Has(op_map, k)
                        /\ Get(op_map, k) = canonical_operation_id(k)
              /\ DictKeys(NormalizedOperations(d))
                    = {canonical_operation_id(k) : k \in DictKeys(WrittenOperations(d))}
              /\ DistinctKeys([o \in DOMAIN NormalizedOperations(d) |->
                                  NormalizedOperations(d)[o].k])
              /\ \A o \in DOMAIN NormalizedOperations(d) :
                    SameButStamped(LastWritten(d, NormalizedOperations(d)[o].k),
                                   NormalizedOperations(d)[o].v)
        /\ DictKeys(op_map)
              = UNION {DictKeys(WrittenOperations(d)) : d \in DOMAIN report.datasets}

\* two keys of one dataset with the same canonical id and different entries
C21_Witness ==
    /\ pc = "normalized"
    /\ Colliding(1)
    /\ Len(NormalizedOperations(1)) = 1
    /\ Len(op_map) >= 2

\* C22: a normalized entry has the sample_count its producer supplied,
\* whatever its iterations; where the producer supplied none, it has the
\* value of iterations.
C22_SampleCountBackfilled ==
    pc = "normalized" =>
        \A d \in DOMAIN report.datasets :
            \A o \in DOMAIN NormalizedOperations(d) :
                LET stored == NormalizedOperations(d)[o].v
                    written == LastWritten(d, NormalizedOperations(d)[o].k)
                IN  /\ HasField(written, "sample_count") =>
                          /\ HasField(stored, "sample_count")
                          /\ stored.sample_count = written.sample_count
                    /\ (~HasField(written, "sample_count") /\ HasField(written, "iterations")) =>
                          /\ HasField(stored, "sample_count")
                          /\ stored.sample_count = written.iterations
                    /\ HasField(written, "iterations") =>
                          stored.iterations = written.iterations

\* an entry with a sample count other than its iterations beside one with
\* iterations only
C22_Witness ==
    /\ pc = "normalized"
    /\ Len(NormalizedOperations(1)) = 2
    /\ \E a, b \in DOMAIN WrittenOperations(1) :
          /\ HasField(WrittenOperations(1)[a].v, "sample_count")
          /\ WrittenOperations(1)[a].v.sample_count # WrittenOperations(1)[a].v.iterations
          /\ ~HasField(WrittenOperations(1)[b].v, "sample_count")
          /\ HasField(WrittenOperations(1)[b].v, "iterations")

----------------------------------------------------------------------------
(* Statements about the canonical id of a key                              *)

\* position i of a key holds a lowercase letter or a digit and the next an
\* uppercase letter
IsBoundary(key, i) ==
    /\ i < Len(key)
    /\ (IsLower(key[i]) \/ IsDigit(key[i]))
    /\ IsUpper(key[i + 1])

\* the key with "_" put after every boundary position, "-" turned into "_"
\* and every letter in lower case
Derived(key) ==
    LET small(c) == IF c = "-" THEN "_" ELSE LowerChar(c)
    IN  Flatten([i \in DOMAIN key |->
                    IF IsBoundary(key, i) THEN <<small(key[i]), "_">>
                    ELSE <<small(key[i])>>])

\* the multi-word ids with their two words
MultiWordIds ==
    { <<S_deserialize, S_xml, S_deserialize_xml>>,
      <<S_serialize, S_xml, S_serialize_xml>>,
      <<S_aasx, S_extract, S_aasx_extract>>,
      <<S_aasx, S_repackage, S_aasx_repackage>> }

\* the camelCase, dense, hyphenated and snake_case spellings of two words
Spellings(first, second) ==
    {first \o Capitalized(second), first \o second,
     first \o <<"-">> \o second, first \o <<"_">> \o second}

\* C23: the canonical id of a key is its entry in the alias table when it
\* has one; else the derived form of the key, replaced by the multi-word id
\* when it is one of the four dense forms.  The camelCase, dense, hyphenated
\* and snake_case spellings of the four multi-word ids all have that id, and
\* no canonical id has an uppercase letter or a hyphen.
C23_LookupThenDerive ==
    Len(canonical) >= 1 =>
        LET id == canonical[1]
            aliases == {e \in explicit : e[1] = raw_op}
        IN  /\ IF aliases # {}
               THEN \A e \in aliases : id = e[2]
               ELSE \/ \E m \in MultiWordIds : id = m[3] /\ m[1] \o m[2] = Derived(raw_op)
                    \/ /\ id = Derived(raw_op)
                       /\ \A m \in MultiWordIds : m[1] \o m[2] # id
            /\ \A m \in MultiWordIds : raw_op \in Spellings(m[1], m[2]) => id = m[3]
            /\ \A i \in DOMAIN id : ~IsUpper(id[i]) /\ id[i] # "-"

\* a hyphenated spelling, which is in neither table, canonicalized
C23_Witness ==
    /\ Len(canonical) >= 1
    /\ raw_op = S_aasx \o <<"-">> \o S_repackage
    /\ canonical[1] = S_aasx_repackage

----------------------------------------------------------------------------
(* Statements about server entries                                         *)

\* the file parses, as read_json understands it
Parses(file) == file.kind = "json"

\* the file parses to a document that is not empty
ParsesNonEmpty(file) ==
    /\ Parses(file)
    /\ IF IsObject(file.doc) THEN DOMAIN file.doc # {} ELSE file.doc.truthy

\* the walk stopped with an exception in a directory that has no report
FailedAtServerDirectory ==
    /\ pc = "raised" /\ todo # <<>>
    /\ names = load_names(known_sdks)
    /\ IsDirectory(Head(todo)) /\ ~HoldsReport(Head(todo))

\* C25: a server entry has env exactly when env.json parses to a non-empty
\* document, conformance exactly when conformance_summary.json parses, and
\* benchmarks exactly when one of the two k6 files parses, with scenarios
\* and crud for exactly the files that parsed; and whatever the optional
\* files of a server directory are, the walk yields its entry and goes on.
C25_OptionalArtifacts ==
    Walking =>
        /\ ~FailedAtServerDirectory
        /\ \A name \in Visited :
              (IsDirectory(name) /\ ~HoldsReport(name)) =>
                  /\ Cardinality(ServerEntriesOf(name)) = 1
                  /\ \A i \in ServerEntriesOf(name) :
                        LET entry == server_benchmarks[i]
                            dir == ChildrenOf[name]
                        IN  /\ HasField(entry, "env") <=> ParsesNonEmpty(dir.env)
                            /\ HasField(entry, "conformance") <=> Parses(dir.conformance)
                            /\ HasField(entry, "benchmarks")
                                  <=> (Parses(dir.k6_summary) \/ Parses(dir.k6_crud))
                            /\ HasField(entry, "benchmarks") =>
                                  /\ HasField(entry.benchmarks, "scenarios")
                                        <=> Parses(dir.k6_summary)
                                  /\ HasField(entry.benchmarks, "crud")
                                        <=> Parses(dir.k6_crud)

----------------------------------------------------------------------------
(* Statements about the regression pass of main                            *)

\* `after` is `before` with a regressions list added and nothing else changed
OnlyRegressionsAdded(before, after) ==
    /\ ~HasField(before, "regressions")
    /\ DOMAIN after = DOMAIN before \cup {"regressions"}
    /\ \A f \in DOMAIN before : after[f] = before[f]

\* C27: once the entries are built, the run changes neither the files it
\* read nor the index of previous entries, and changes a current entry only
\* by adding a regressions list to it, pipeline and all other fields as they
\* were.
C27_InputsUntouched ==
    [][/\ inputVars' = inputVars
       /\ pc \in {"compare", "write"} =>
             /\ prev_index' = prev_index
             /\ server_benchmarks' = server_benchmarks
             /\ Len(sdk_benchmarks') = Len(sdk_benchmarks)
             /\ \A i \in DOMAIN sdk_benchmarks :
                   \/ sdk_benchmarks'[i] = sdk_benchmarks[i]
                   \/ /\ pc = "compare" /\ i = cursor
                      /\ OnlyRegressionsAdded(sdk_benchmarks[i], sdk_benchmarks'[i])]_vars

\* an entry written out with regressions beside the report it was built from
C27_Witness ==
    /\ pc = "done"
    /\ Len(output.sdk_benchmarks) = 1
    /\ HasField(output.sdk_benchmarks[1], "regressions")
    /\ HasField(output.sdk_benchmarks[1], "env")
    /\ output.sdk_benchmarks[1].pipeline = CanonicalReport(200)
    /\ Len(prev_index) = 1

\* the previous-results file was given, parsed to an object and holds at
\* least one library entry
PreviousHoldsEntries ==
    /\ previous_results.given
    /\ previous_results.file.kind = "json"
    /\ IsObject(previous_results.file.doc)
    /\ HasField(previous_results.file.doc, "sdk_benchmarks")
    /\ previous_results.file.doc.sdk_benchmarks # <<>>

\* the number of regression records attached to the entries of a list
RECURSIVE AttachedRecords(_)
AttachedRecords(entries) ==
    IF entries = <<>> THEN 0
    ELSE (IF HasField(Head(entries), "regressions") THEN Len(Head(entries).regressions) ELSE 0)
         + AttachedRecords(Tail(entries))

\* the count the summary line of the regression pass states: none when the
\* pass did not run or found nothing
PrintedCount ==
    LET detected == {i \in DOMAIN stdout : stdout[i].line = "detected"}
    IN  IF detected = {} THEN 0 ELSE stdout[CHOOSE i \in detected : TRUE].count

\* C28: in the written document a library entry has a regressions list only
\* when the previous-results file was given, parsed and held a library
\* entry, and then the list is not empty and holds significant records
\* only; no server entry has one; and the count printed is the number of
\* records attached over all entries.
C28_RegressionsOnlyWhenFound ==
    pc = "done" =>
        /\ \A i \in DOMAIN output.sdk_benchmarks :
              HasField(output.sdk_benchmarks[i], "regressions") =>
                  /\ PreviousHoldsEntries
                  /\ output.sdk_benchmarks[i].regressions # <<>>
                  /\ \A r \in DOMAIN output.sdk_benchmarks[i].regressions :
                        output.sdk_benchmarks[i].regressions[r].significant = TRUE
        /\ \A i \in DOMAIN output.server_benchmarks :
              ~HasField(output.server_benchmarks[i], "regressions")
        /\ PrintedCount = AttachedRecords(output.sdk_benchmarks)
        /\ Cardinality({i \in DOMAIN stdout : stdout[i].line \in {"detected", "none"}}) <= 1

\* two entries of one sdk id, each with its record, and two printed
C28_Witness ==
    /\ pc = "done"
    /\ Len(output.sdk_benchmarks) = 2
    /\ \A i \in 1..2 : HasField(output.sdk_benchmarks[i], "regressions")
    /\ PrintedCount = 2

============================================================================
